--------------------------- MODULE SerializeBase ---------------------------
(***************************************************************************)
(* The part of the serializers that does not know the format: it walks a   *)
(* value by the name of its type and calls the format's virtual methods,   *)
(* which are the operators this module takes as constants.  A type is a    *)
(* sequence: <<"vector", "list", "int">> is std::vector<std::list<int> >,  *)
(* which the code holds as "std::vector<std::list<int,".  Class maps the   *)
(* classes code was generated for to their fields.  Containers of foreign  *)
(* elements are copied by their memory layout; the layout is the one of    *)
(* the compilers the code was written for, whose list keeps no size.       *)
(***************************************************************************)
EXTENDS CastUtil

CONSTANTS Class,
  serializePrimitive(_, _, _), startContainerSerialization(_, _),
  addContainerSerializableElement(_, _), addContainerSerializableElementMulti(_, _),
  afterAddContainerSerializableElement(_), endContainerSerialization(_, _, _),
  fromSerializableObjectToString(_), startObjectSerialization(_),
  addObjectPrimitiveProperty(_, _, _, _), addObjectProperty(_, _, _, _),
  afterAddObjectProperty(_), endObjectSerialization(_, _),
  getUnserializableObject(_), getValidUnserializableObject(_, _),
  getUnserializableClassName(_, _), getPrimitiveValue(_, _), getContainerSize(_),
  getContainerElement(_, _), getPropertyElement(_, _), getObjectProperty(_, _),
  getConatinerElementClassName(_, _),
  primitiveElement(_, _, _), isValidClassNamespace(_, _, _),
  isValidObjectProperty(_, _, _), getObjectPrimitiveValue(_, _, _)

Primitive == Integers32And64 \cup
  {"long long", "unsigned long long", "float", "double", "long double", "bool",
   "string", "char", "unsigned char"}

Container == {"vector", "deque", "list", "queue", "set", "multiset"}
Sorted    == {"set", "multiset"}

\* What is written of memory that is not the object it is taken for.
Garbled == <<"garbled">>

isPrimitiveDataType(type) == type \in Primitive

----------------------------------------------------------------------------
(* Writing.                                                                *)

\* The element types each container has a branch for.  Six branches of the queue
\* are spelled "std::std::queue<" and never taken, and one of the multiset names
\* the type of another.
ListsElement(container, elem) ==
  /\ elem \in Primitive
  /\ container = "multiset" => elem # "unsigned long long"
  /\ container = "queue" => elem \notin
       {"long long", "unsigned int", "unsigned short", "unsigned long",
        "unsigned long long", "long double"}

\* Elements, already written, between the start and the end of a container.
WriteElements(container, elem, texts) ==
  fromSerializableObjectToString(endContainerSerialization(
    FoldLeft(LAMBDA o, t : afterAddContainerSerializableElement(
                             addContainerSerializableElement(o, t)),
             startContainerSerialization(elem, container), texts), elem, container))

WriteNested(container, elem, texts) ==
  fromSerializableObjectToString(endContainerSerialization(
    FoldLeft(LAMBDA o, t : afterAddContainerSerializableElement(
                             addContainerSerializableElementMulti(o, t)),
             startContainerSerialization(elem, container), texts), elem, container))

serializeElements(container, elem, kids) ==
  WriteElements(container, <<elem>>,
    [i \in DOMAIN kids |-> serializePrimitive(elem, kids[i], "object")])

\* The generated code has a function for a container of a class, except for
\* the sorted ones of a class without an order.
HasContainer(container, elem) ==
  elem \in DOMAIN Class /\ (container \in Sorted => Class[elem].ordered)

\* A field that is not public is found by the names of its methods.  The type of
\* a method that returns or takes a pointer keeps its star, the type of the field
\* does not: no method is found for a pointer.
Methods(f) == IF f.ptr THEN {} ELSE f.methods

\* What is not public needs both methods, unless a pointer stands before it: then
\* the flag that remembers it hides that one of the two is missing.
BehindPointer(fields, i) == i > 1 /\ ~fields[i - 1].public /\ fields[i - 1].ptr

Accessed(fields, i, method) ==
  \/ fields[i].public
  \/ /\ method \in Methods(fields[i])
     /\ Methods(fields[i]) = {"get", "set"} \/ BehindPointer(fields, i)

RECURSIVE handleAllSerialization(_, _), handleMultiLevelSerialization(_, _),
          serializeObject(_, _)

\* One property of an object.  A container or class behind a NULL pointer is
\* left out, but what follows a property is written all the same.  The name of
\* a class taken from a pointer ends in a star: no function has that name.
serializeProperty(o, f, v) ==
  LET text == IF f.ptr /\ Len(f.type) = 1 THEN <<>> ELSE handleAllSerialization(f.type, v)
  IN  afterAddObjectProperty(
        IF f.type[1] \in Primitive \cup {"Date", "BinaryData"}
        THEN addObjectPrimitiveProperty(o, f.name, f.type[1], v)
        ELSE IF v.tag = "null" THEN o ELSE addObjectProperty(o, f.name, f.type, text))

\* A function of the generated code: the fields of the object in turn.
serializeObject(class, v) ==
  LET fields == Class[class].fields
  IN  fromSerializableObjectToString(endObjectSerialization(
        FoldLeft(LAMBDA o, i : serializeProperty(o, fields[i], v.kids[i]),
                 startObjectSerialization(class),
                 SelectSeq([i \in DOMAIN fields |-> i], LAMBDA i : Accessed(fields, i, "get"))),
        class))

\* _serContainer: a function the library does not have writes nothing.
serContainer(container, elem, kids) ==
  IF ~HasContainer(container, elem) THEN <<>>
  ELSE WriteElements(container, <<elem>>,
         [i \in DOMAIN kids |-> serializeObject(elem, kids[i])])

\* _ser
ser(class, v) == IF class \in DOMAIN Class THEN serializeObject(class, v) ELSE <<>>

\* A Date and a BinaryData are turned into a string here, and the format's
\* method is given the string.
handleAllSerialization(type, v) ==
  CASE Len(type) = 1 /\ isPrimitiveDataType(type[1]) ->
         serializePrimitive(type[1], v, "object")
    [] type[1] \in {"Date", "BinaryData"} -> serializePrimitive(type[1], v, "string")
    [] Len(type) > 2 -> handleMultiLevelSerialization(type, v)
    [] Len(type) = 2 /\ ListsElement(type[1], type[2]) ->
         serializeElements(type[1], type[2], v.kids)
    [] Len(type) = 2 /\ ~ListsElement(type[1], type[2]) ->
         serContainer(type[1], type[2], v.kids)
    [] OTHER -> ser(type[1], v)

\* Vectors and deques are walked by the kind of their elements, and have no
\* branch for queues; a queue is walked as a deque of deques, whatever it holds.
handleMultiLevelSerialization(type, v) ==
  LET inner == Tail(type)
      kids  == IF type[1] \in {"vector", "deque"} /\ inner[1] = "queue" THEN <<>> ELSE v.kids
  IN  CASE Len(inner) = 1 -> handleAllSerialization(type, v)
        [] type[1] = "queue" /\ inner[1] \notin {"deque", "queue"} /\ v.kids # <<>> -> Garbled
        [] OTHER -> WriteNested(type[1], inner,
                      [i \in DOMAIN kids |-> handleMultiLevelSerialization(inner, kids[i])])

----------------------------------------------------------------------------
(* Reading.                                                                *)

\* A container filled in the order of the text: sets keep one of equals.
Filled(container, kids) ==
  IF container = "set" /\ Build(kids).tag = "node"
  THEN Node(FoldLeft(LAMBDA s, k : IF k \in ToSet(s) THEN s ELSE Append(s, k), <<>>, kids))
  ELSE Build(kids)

\* Elements copied by layout into a set compare as smaller than all others:
\* each goes to the front.
FilledByLayout(container, kids) ==
  IF container \in Sorted /\ Build(kids).tag = "node" THEN Node(Reverse(kids)) ELSE Build(kids)

\* A list copied by layout still ends at the list it was copied from.  Its last
\* node is found again by counting: in a list by its own size, in a vector, a
\* deque or a set by the size of the first list there; in a queue never.
Relinked(container, first, n, v) ==
  LET size == IF container = "list" THEN n ELSE IF first = 0 THEN 1 ELSE first
  IN  IF v.tag # "node" THEN v
      ELSE IF container = "queue" \/ n = 0 \/ n < size THEN Undef
      ELSE Node(SubSeq(v.kids, 1, size))

\* A set copied by layout keeps nodes that lead to the set it was copied from;
\* without an object to copy, the copy reads what is not there.
CopiedByLayout(container, inner, first, v) ==
  CASE v.tag = "null" -> Undef
    [] v.tag # "null" /\ inner \in Sorted -> IF v.tag = "node" THEN Undef ELSE v
    [] v.tag # "null" /\ inner = "list" -> Relinked(container, first, Len(v.kids), v)
    [] OTHER -> v

RECURSIVE unSerializeUnknownBase(_, _), handleMultiLevelUnSerialization(_, _),
          unserializeObject(_, _), unserContainer(_, _, _)

\* unSerialize: without a result the variable keeps what it was built with.
Default(type) == IF type[1] \in Container THEN Node(<<>>) ELSE Undef

unSerialize(o, type) ==
  LET v == unSerializeUnknownBase(o, type) IN IF v.tag = "null" THEN Default(type) ELSE v

\* The pointer to a class is asked for under a name with a star.
unSerializeToPointer(o, type) ==
  IF Len(type) = 1 THEN Null ELSE unSerializeUnknownBase(o, type)

\* A Date is parsed from a text that is read for it as a string: the format it
\* is written in is one DateFormat takes for another, and the parser gives up.
Parsed(type, v) == IF type = "Date" /\ v.tag = "leaf" THEN Thrown ELSE v

\* A missing primitive is read through a NULL pointer.
propertyValue(o, f, i) ==
  LET kind == IF f.type[1] \in {"Date", "BinaryData"} THEN "string" ELSE f.type[1]
      v    == getObjectPrimitiveValue(getObjectProperty(o, i), kind, f.name)
  IN  CASE f.type[1] \in Primitive \cup {"Date", "BinaryData"} ->
             IF v.tag = "null" THEN Undef ELSE Parsed(f.type[1], v)
        [] f.type[1] \notin Primitive \cup {"Date", "BinaryData"} /\ f.ptr ->
             unSerializeToPointer(getPropertyElement(o, i), f.type)
        [] OTHER -> unSerialize(getPropertyElement(o, i), f.type)

\* The generated code: every part of the text that is named as a field is
\* assigned to it, the last one for good.  A constructor sets pointers to NULL.
unserializeObject(o, class) ==
  LET fields == Class[class].fields
      At(f)  == {i \in 1..getContainerSize(o) : isValidObjectProperty(o, f.name, i)}
      Of(k, f) == IF At(f) = {} \/ ~Accessed(fields, k, "set")
                  THEN IF f.ptr THEN Null ELSE Default(f.type)
                  ELSE propertyValue(o, f, CHOOSE i \in At(f) : \A j \in At(f) : j <= i)
  IN  IF ~isValidClassNamespace(o, <<class>>, FALSE) THEN Null
      ELSE Build([k \in DOMAIN fields |-> Of(k, fields[k])])

\* _unserContainer; an element that is no object is dereferenced.
unserContainer(o, container, elem) ==
  LET read == [i \in 1..getContainerSize(o) |->
                 unserializeObject(getContainerElement(o, i), elem)]
  IN  IF ~HasContainer(container, elem) \/ ~isValidClassNamespace(o, <<container, elem>>, TRUE) THEN Null
      ELSE Filled(container, [i \in DOMAIN read |->
             IF read[i].tag = "null" THEN Undef ELSE read[i]])

\* Elements stored as another type than they are taken for.  The types one name
\* is mistaken for are of the same size but for one.
HeldAs(elem, cn, v) ==
  IF elem = "long double" /\ cn # elem /\ v.tag = "node" /\ v.kids # <<>> THEN Undef ELSE v

\* unserializevec, unserializelist, unserializeset and the others: what the
\* elements are is up to the format.
unserializeElements(o, container, elem) ==
  LET cn == getConatinerElementClassName(o, elem)
  IN  CASE o.tag # "obj" -> Undef
        [] o.tag = "obj" /\ ~isPrimitiveDataType(cn) -> unserContainer(o, container, cn)
        [] OTHER -> HeldAs(elem, cn,
             Filled(container, [i \in 1..getContainerSize(o) |-> primitiveElement(o, i, cn)]))

\* An inner queue is read by nobody: the outer container stays empty.
handleMultiLevelUnSerialization(o, type) ==
  LET inner == Tail(type)
      read  == [i \in 1..getContainerSize(o) |->
                  handleMultiLevelUnSerialization(getContainerElement(o, i), inner)]
      first == IF read = <<>> THEN 0 ELSE Len(read[1].kids)
  IN  CASE Len(type) = 2 \/ o.tag # "obj" -> unserializeElements(o, type[1], type[2])
        [] o.tag = "obj" /\ Len(type) > 2 /\ inner[1] = "queue" -> Node(<<>>)
        [] OTHER -> FilledByLayout(type[1], [i \in DOMAIN read |->
                      CopiedByLayout(type[1], inner[1], first, read[i])])

\* A container or an object inside another.
unSerializeUnknownBase(o, type) ==
  LET cn == getUnserializableClassName(o, type)
  IN  CASE o.tag # "obj" -> o
        [] o.tag = "obj" /\ cn = <<>> -> Null
        [] o.tag = "obj" /\ cn # <<>> /\ Len(type) > 2 -> handleMultiLevelUnSerialization(o, type)
        [] Len(type) = 2 /\ cn # <<>> /\ cn[1] \in Container ->
             unserializeElements(o, cn[1], type[2])
        [] Len(type) = 1 /\ type[1] \in DOMAIN Class -> unserializeObject(o, type[1])
        [] OTHER -> Null

\* The whole text.  No object, or no text, is no value.
handleAllUnSerialization(text, type) ==
  LET o == getUnserializableObject(text)
      v == getValidUnserializableObject(o, text)
  IN  CASE o.tag = "undef" -> Undef
        [] o.tag = "null" \/ text = <<>> -> Null
        [] o.tag = "obj" /\ text # <<>> /\ Len(type) = 1
             /\ type[1] \in Primitive \cup {"Date", "BinaryData"} -> getPrimitiveValue(o, type[1])
        [] OTHER -> unSerializeUnknownBase(v, type)

\* serialize and unserialize, the calls of the program.
Written(type, v) == handleAllSerialization(type, v)

Read(type, text) ==
  LET v == handleAllUnSerialization(text, type)
  IN  IF Has(text, Exception) THEN Thrown ELSE IF v.tag = "null" THEN Default(type) ELSE v
=============================================================================
