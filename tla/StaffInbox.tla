------------------------------- MODULE StaffInbox -------------------------------
(***************************************************************************)
(* features/messages: the conversations the staff of a shop reads and      *)
(* answers.  MessagesService is the only code that writes these tables;    *)
(* its answers are stored but sent to no one (the TODO of sendMessage).    *)
(* A request first finds its conversation, and writes later; the requests  *)
(* of several clerks interleave at every statement.                        *)
(***************************************************************************)
EXTENDS Naturals, SequencesExt

CONSTANTS
  Threads, Clerks, NoThread,
  Letters,         \* contents of messages; contents are told apart
  ThreadStatuses,  \* what updateConversation may set
  MaxLetters       \* bound: messages of a conversation

VARIABLES
  threads,  \* row of each conversation, or NoThread
  letters,  \* its messages in order of creation
  clerks,   \* what each clerk has found and is about to write
  raced,    \* conversations that two clerks wrote to at once
  torn      \* conversations for which the second statement of a request failed

inboxVars == <<threads, letters, clerks, raced, torn>>

AtRest == [at |-> "rest", thread |-> NoThread, text |-> NoThread]

Exists(t) == threads[t] # NoThread

\* Clerks that write a message of t and have not finished.
Writers(t, cs) == {c \in Clerks : cs[c].thread = t /\ cs[c].at \in {"first", "insert", "update"}}

Begin(c, t, step, x) ==
  /\ clerks[c] = AtRest
  /\ clerks' = [clerks EXCEPT ![c] = [at |-> step, thread |-> t, text |-> x]]
  /\ raced' = IF \E d, e \in Writers(t, clerks') : d # e THEN raced \cup {t} ELSE raced

Rest(c) == clerks' = [clerks EXCEPT ![c] = AtRest]

-----------------------------------------------------------------------------
\* createConversation, with an initial message (text x) or without.
CreateThread(c, t) ==
  /\ ~Exists(t) /\ t \notin torn \cup raced /\ \A d \in Clerks : clerks[d].thread # t
  /\ \/ \E x \in Letters :
          /\ threads' = [threads EXCEPT ![t] = [status |-> "unread", last |-> x, unread |-> 1]]
          /\ Begin(c, t, "first", x)
     \/ /\ threads' = [threads EXCEPT ![t] = [status |-> "unread", last |-> NoThread, unread |-> 0]]
        /\ clerks[c] = AtRest
        /\ UNCHANGED <<clerks, raced>>
  /\ letters' = [letters EXCEPT ![t] = <<>>]
  /\ UNCHANGED torn

\* getConversation marks what it found unread as read.
OpenThread(c, t) ==
  /\ Exists(t) /\ threads[t].status = "unread" /\ Begin(c, t, "mark", NoThread)
  /\ UNCHANGED <<threads, letters, torn>>

\* sendMessage, updateConversation and deleteConversation find the conversation.
FindThread(c, t) ==
  /\ Exists(t)
  /\ \/ Len(letters[t]) < MaxLetters /\ \E x \in Letters : Begin(c, t, "insert", x)
     \/ \E step \in {"change", "delete"} : Begin(c, t, step, NoThread)
  /\ UNCHANGED <<threads, letters, torn>>

-----------------------------------------------------------------------------
\* The message of a request is inserted; it refers to its conversation.
InsertLetter(c) ==
  LET k == clerks[c]
  IN  /\ k.at \in {"first", "insert"} /\ Exists(k.thread)
      /\ letters' = [letters EXCEPT ![k.thread] = Append(@, k.text)]
      /\ IF k.at = "first" THEN Rest(c) ELSE clerks' = [clerks EXCEPT ![c].at = "update"]
      /\ UNCHANGED <<threads, raced, torn>>

\* Mutation: the conversation keeps its first message.
UpdateThreadOnce(c) ==
  LET k == clerks[c]
  IN  /\ k.at = "update" /\ Exists(k.thread)
      /\ threads' = [threads EXCEPT ![k.thread] = [@ EXCEPT !.last = IF @ = NoThread THEN k.text ELSE @, !.status = "replied"]]
      /\ Rest(c)
      /\ UNCHANGED <<letters, raced, torn>>

\* sendMessage ends with the conversation: its unread messages stay counted.
UpdateThread(c) ==
  LET k == clerks[c]
  IN  /\ k.at = "update" /\ Exists(k.thread)
      /\ threads' = [threads EXCEPT ![k.thread] = [@ EXCEPT !.last = k.text, !.status = "replied"]]
      /\ Rest(c)
      /\ UNCHANGED <<letters, raced, torn>>

\* Whatever the conversation has become since it was found unread.
MarkRead(c) ==
  LET k == clerks[c]
  IN  /\ k.at = "mark" /\ Exists(k.thread)
      /\ threads' = [threads EXCEPT ![k.thread] = [@ EXCEPT !.status = "read", !.unread = 0]]
      /\ Rest(c)
      /\ UNCHANGED <<letters, raced, torn>>

Change(c) ==
  LET k == clerks[c]
  IN  /\ k.at = "change" /\ Exists(k.thread)
      /\ \E s \in ThreadStatuses : threads' = [threads EXCEPT ![k.thread].status = s]
      /\ Rest(c)
      /\ UNCHANGED <<letters, raced, torn>>

\* Its messages go with the conversation (onDelete: Cascade).
DeleteThread(c) ==
  LET k == clerks[c]
  IN  /\ k.at = "delete" /\ Exists(k.thread)
      /\ threads' = [threads EXCEPT ![k.thread] = NoThread]
      /\ letters' = [letters EXCEPT ![k.thread] = <<>>]
      /\ Rest(c)
      /\ UNCHANGED <<raced, torn>>

\* A statement fails, for one because the conversation was deleted meanwhile.
BreakOff(c) ==
  LET k == clerks[c]
  IN  /\ k.at # "rest"
      /\ torn' = IF k.at \in {"first", "update"} THEN torn \cup {k.thread} ELSE torn
      /\ Rest(c)
      /\ UNCHANGED <<threads, letters, raced>>

Init ==
  /\ threads = [t \in Threads |-> NoThread]
  /\ letters = [t \in Threads |-> <<>>]
  /\ clerks = [c \in Clerks |-> AtRest]
  /\ raced = {} /\ torn = {}

Next ==
  \E c \in Clerks :
    \/ InsertLetter(c) \/ UpdateThread(c) \/ MarkRead(c) \/ Change(c) \/ DeleteThread(c) \/ BreakOff(c)
    \/ \E t \in Threads : CreateThread(c, t) \/ OpenThread(c, t) \/ FindThread(c, t)

Spec == Init /\ [][Next]_inboxVars

-----------------------------------------------------------------------------
TypeOK ==
  /\ \A t \in Threads :
       /\ letters[t] \in Seq(Letters)
       /\ Exists(t) => threads[t].last \in Letters \cup {NoThread} /\ threads[t].unread \in 0..1
       /\ ~Exists(t) => letters[t] = <<>>
  /\ \A c \in Clerks : clerks[c].at = "rest" <=> clerks[c] = AtRest

\* The message a conversation is listed with is its latest one, unless two
\* clerks wrote to it at once or a request broke off between its statements
\* (sendMessage, createConversation).
LastIsLatest ==
  \A t \in Threads \ (raced \cup torn) :
    Exists(t) /\ Writers(t, clerks) = {} =>
      threads[t].last = IF letters[t] = <<>> THEN NoThread ELSE Last(letters[t])

\* And even then it is one of its messages, or the one that was not stored.
LastIsAMessage ==
  \A t \in Threads \ torn :
    Exists(t) /\ threads[t].last # NoThread /\ Writers(t, clerks) = {} => threads[t].last \in ToSet(letters[t])
=============================================================================
