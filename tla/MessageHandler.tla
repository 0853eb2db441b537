--------------------------- MODULE MessageHandler ---------------------------
(***************************************************************************)
(* Two services on Server, and their clients: MessageHandler keeps the     *)
(* messages of a queue or topic in a file, MethodInvoc runs a method.      *)
(* MessageUtil is the client of the first.  A call is a connection with    *)
(* one text, [kind, to, valid, whole]; it is not whole when it is longer   *)
(* than what one recv() takes.                                             *)
(***************************************************************************)
EXTENDS SocketServer

CONSTANTS MessageCalls,  \* what clients of MessageHandler send
          MethodCalls,   \* what clients of MethodInvoc send
          Destination    \* the queues and topics

\* What MessageUtil sends is a message or a command.
ASSUME MessageAssumption ==
  \A text \in MessageCalls :
    text.kind \in {"send", "get"} /\ text.valid \in BOOLEAN /\ text.whole \in BOOLEAN

VARIABLES call,   \* by peer: the text, and how far its client is
          files   \* by destination: the messages in its file, named by their call

messageVars == <<call, files>>

NoCall == [text |-> [kind |-> "none"], pc |-> "new", told |-> "nothing"]

MessageInit ==
  /\ call = [p \in Peer |-> NoCall]
  /\ files = [d \in Destination |-> <<>>]

Texts == IF service = "messages" THEN MessageCalls ELSE MethodCalls

----------------------------------------------------------------------------
(* The clients.                                                            *)

ClientConnects(p) ==
  /\ service \in {"messages", "methods"} /\ call[p].pc = "new"
  /\ Connect(p)
  /\ \E text \in Texts : call' = [call EXCEPT ![p].text = text, ![p].pc = "connected"]
  /\ UNCHANGED files

ClientSends(p) ==
  /\ call[p].pc = "connected"
  /\ conn' = [conn EXCEPT ![p].in = <<call[p].text>>]
  /\ call' = [call EXCEPT ![p].pc = "waiting"]
  /\ UNCHANGED <<service, table, slot, backlog, watched, thread, dead, crossed, files>>

\* The answer, or the end of the connection: receiveMessage() then makes a message
\* of a buffer nobody wrote to.  A connection closed on an unread text is reset,
\* which may destroy the answer and ends the program of the client.
ClientReads(p) ==
  /\ call[p].pc = "waiting"
  /\ \E told \in {"nothing", "reset"} \cup {conn[p].out[i] : i \in DOMAIN conn[p].out} :
       /\ told = "nothing" => conn[p].out = <<>> /\ ~Kept(p)
       /\ told = "reset" => conn[p].in # <<>> /\ ~Kept(p)
       /\ call' = [call EXCEPT ![p].pc = "done", ![p].told = told]
  /\ conn' = [conn EXCEPT ![p].client = "shut"]
  /\ UNCHANGED <<service, table, slot, backlog, watched, thread, dead, crossed, files>>

----------------------------------------------------------------------------
(* The threads.                                                            *)

\* The text up to its last ">": nothing is left of a command, which has none.
Cut(text) == IF text.kind \in {"send", "invoke"} THEN text ELSE [text EXCEPT !.kind = ""]

\* recv() fails on what is no connection: the string is built with a length of -1.
ReceiveText(t) ==
  /\ ~dead /\ thread[t].pc = "taken" /\ service \in {"messages", "methods"}
  /\ IF At(thread[t].fd) \in Peer THEN EnterRecv(t, "recv") ELSE Terminate
  /\ UNCHANGED messageVars

TextReceived(t) ==
  /\ ~dead /\ thread[t].pc = "recv"
  /\ \/ ReceivedEnd(t, "close")
     \/ \E i \in DOMAIN conn[thread[t].hold].in : LET text == conn[thread[t].hold].in[i] IN
          Received(t, IF Cut(text).kind = "" THEN "close" ELSE "got",
                   <<text, thread[t].hold>>, IF text.whole THEN <<>> ELSE <<text>>)
  /\ UNCHANGED messageVars

\* A message that is not whole, or lacks a header, is logged and dropped.
\* Mutant of Stored: the file is written anew.
StoredAlone(text, p) ==
  IF text.valid /\ text.whole /\ text.to \in Destination
  THEN [files EXCEPT ![text.to] = <<p>>] ELSE files

Stored(text, p) ==
  IF text.valid /\ text.whole /\ text.to \in Destination
  THEN [files EXCEPT ![text.to] = Append(@, p)] ELSE files

\* writeMessageToQ, writeMessageToT
WriteMessage(t) ==
  /\ ~dead /\ thread[t].pc = "got" /\ service = "messages"
  /\ files' = Stored(thread[t].got[1], thread[t].got[2])
  /\ thread' = [thread EXCEPT ![t].pc = "answer"]
  /\ UNCHANGED <<service, table, slot, backlog, watched, conn, dead, crossed, call>>

\* Whatever is wrong with the call is answered as an error of the parser.
InvokeMethod(t) ==
  /\ ~dead /\ thread[t].pc = "got" /\ service = "methods"
  /\ thread' = [thread EXCEPT ![t].pc = "answer"]
  /\ UNCHANGED <<service, table, slot, backlog, watched, conn, dead, crossed, messageVars>>

Reply(text) ==
  IF service = "messages" THEN "Received Message----"
  ELSE IF text.valid /\ text.whole THEN "return" ELSE "XmlParseException"

AnswerText(t) ==
  /\ ~dead /\ thread[t].pc = "answer"
  /\ SendTo(At(thread[t].fd), Reply(thread[t].got[1]))
  /\ thread' = [thread EXCEPT ![t].pc = "close"]
  /\ UNCHANGED <<service, table, slot, backlog, watched, dead, crossed, messageVars>>

CloseText(t) ==
  /\ ~dead /\ thread[t].pc = "close"
  /\ Close(t, "done")
  /\ UNCHANGED messageVars

ClientStep(p) == ClientConnects(p) \/ ClientSends(p) \/ ClientReads(p)

TextStep(t) ==
  \/ ReceiveText(t) \/ TextReceived(t) \/ WriteMessage(t) \/ InvokeMethod(t)
  \/ AnswerText(t) \/ CloseText(t)

MessageNext ==
  \/ \E p \in Peer : ClientStep(p)
  \/ \E t \in Peer : TextStep(t)

----------------------------------------------------------------------------

\* A message whose sender was told that it was received is in the file, and no
\* message is there twice, as long as every thread has worked on its own
\* descriptor (MessageHandler.cpp 74-91, 212-241); what is no message, MessageUtil's
\* requests to receive and to subscribe (MessageUtil.cpp 149-150, 226, 299), is
\* never answered.
ToldIsStored ==
  /\ \A d \in Destination : \A i, j \in DOMAIN files[d] : files[d][i] = files[d][j] => i = j
  /\ service = "messages" => \A p \in Peer : call[p].told = "Received Message----" =>
       \/ crossed
       \/ /\ call[p].text.kind = "send"
          /\ call[p].text.valid /\ call[p].text.whole /\ call[p].text.to \in Destination =>
               \E i \in DOMAIN files[call[p].text.to] : files[call[p].text.to][i] = p
=============================================================================
