------------------------------- MODULE ChatWidget -------------------------------
(***************************************************************************)
(* features/chat-widget: the messages of visitors of a shop's web site.    *)
(*                                                                         *)
(* A message comes through the socket or, as a fallback, by HTTP; both go  *)
(* through processMessage, a statement of which is an action.  Nothing     *)
(* but the code keeps a visitor from having two leads, or a lead from      *)
(* having two active conversations.  Names and addresses of visitors are   *)
(* left out, and so are bot responses: neither sendBotResponse is called.  *)
(***************************************************************************)
EXTENDS Naturals, Sequences, FiniteSets

CONSTANTS
  Visitors, WidgetMessages, WidgetHandlers, NoChat,
  Author,      \* visitor of each message
  MaxClosings  \* bound: conversations that are closed

VARIABLES
  visitorLeads,  \* leads in order of their creation: the visitor of each
  chats,         \* conversations: lead and whether active
  chatRows,      \* conversation each message is stored in, or NoChat
  serving,       \* what each handler knows
  published,     \* messages on lead.message
  confirmed,     \* messages whose client got widget:message:sent
  rejected,      \* messages whose client got widget:error
  overlap        \* handlers that were at work at once, at most

widgetVars == <<visitorLeads, chats, chatRows, serving, published, confirmed, rejected, overlap>>

NotServing == [at |-> "idle", msg |-> NoChat, lead |-> 0, chat |-> 0]

Busy(s) == {h \in WidgetHandlers : s[h].at # "idle"}

\* What findFirst may return: nothing orders the rows.
LeadsOfVisitor(v) == {i \in DOMAIN visitorLeads : visitorLeads[i] = v}
OpenChats(l) == {i \in DOMAIN chats : chats[i].lead = l /\ chats[i].active}

Closed == {i \in DOMAIN chats : ~chats[i].active}

-----------------------------------------------------------------------------
\* A client sends m.
Receive(h, m) ==
  /\ serving[h] = NotServing
  /\ m \notin confirmed \cup rejected /\ \A g \in WidgetHandlers : serving[g].msg # m
  /\ serving' = [serving EXCEPT ![h] = [NotServing EXCEPT !.at = "lead", !.msg = m]]
  /\ overlap' = IF Cardinality(Busy(serving')) > overlap THEN Cardinality(Busy(serving')) ELSE overlap
  /\ UNCHANGED <<visitorLeads, chats, chatRows, published, confirmed, rejected>>

\* Mutation: every message makes a lead.
FindVisitorAnew(h) ==
  /\ serving[h].at = "lead"
  /\ serving' = [serving EXCEPT ![h].at = "newlead"]
  /\ UNCHANGED <<visitorLeads, chats, chatRows, published, confirmed, rejected, overlap>>

FindVisitor(h) ==
  LET found == LeadsOfVisitor(Author[serving[h].msg])
  IN  /\ serving[h].at = "lead"
      /\ \/ \E i \in found : serving' = [serving EXCEPT ![h].at = "chat", ![h].lead = i]
         \/ found = {} /\ serving' = [serving EXCEPT ![h].at = "newlead"]
      /\ UNCHANGED <<visitorLeads, chats, chatRows, published, confirmed, rejected, overlap>>

CreateVisitor(h) ==
  /\ serving[h].at = "newlead"
  /\ visitorLeads' = Append(visitorLeads, Author[serving[h].msg])
  /\ serving' = [serving EXCEPT ![h].at = "chat", ![h].lead = Len(visitorLeads')]
  /\ UNCHANGED <<chats, chatRows, published, confirmed, rejected, overlap>>

FindChat(h) ==
  LET found == OpenChats(serving[h].lead)
  IN  /\ serving[h].at = "chat"
      /\ \/ \E i \in found : serving' = [serving EXCEPT ![h].at = "store", ![h].chat = i]
         \/ found = {} /\ serving' = [serving EXCEPT ![h].at = "newchat"]
      /\ UNCHANGED <<visitorLeads, chats, chatRows, published, confirmed, rejected, overlap>>

CreateChat(h) ==
  /\ serving[h].at = "newchat"
  /\ chats' = Append(chats, [lead |-> serving[h].lead, active |-> TRUE])
  /\ serving' = [serving EXCEPT ![h].at = "store", ![h].chat = Len(chats')]
  /\ UNCHANGED <<visitorLeads, chatRows, published, confirmed, rejected, overlap>>

StoreMessage(h) ==
  /\ serving[h].at = "store"
  /\ chatRows' = [chatRows EXCEPT ![serving[h].msg] = serving[h].chat]
  /\ serving' = [serving EXCEPT ![h].at = "publish"]
  /\ UNCHANGED <<visitorLeads, chats, published, confirmed, rejected, overlap>>

\* publishLeadMessage, and the confirmation of the gateway.
Confirm(h) ==
  /\ serving[h].at = "publish"
  /\ published' = published \cup {serving[h].msg}
  /\ confirmed' = confirmed \cup {serving[h].msg}
  /\ serving' = [serving EXCEPT ![h] = NotServing]
  /\ UNCHANGED <<visitorLeads, chats, chatRows, rejected, overlap>>

\* A statement fails: the gateway tells the client so, whatever is stored.
Reject(h) ==
  /\ serving[h].at # "idle"
  /\ rejected' = rejected \cup {serving[h].msg}
  /\ serving' = [serving EXCEPT ![h] = NotServing]
  /\ UNCHANGED <<visitorLeads, chats, chatRows, published, confirmed, overlap>>

\* closeConversation of WhatsAppService closes a conversation of any channel.
CloseChat(i) ==
  /\ chats[i].active /\ Cardinality(Closed) < MaxClosings
  /\ chats' = [chats EXCEPT ![i].active = FALSE]
  /\ UNCHANGED <<visitorLeads, chatRows, serving, published, confirmed, rejected, overlap>>

Init ==
  /\ visitorLeads = <<>> /\ chats = <<>>
  /\ chatRows = [m \in WidgetMessages |-> NoChat]
  /\ serving = [h \in WidgetHandlers |-> NotServing]
  /\ published = {} /\ confirmed = {} /\ rejected = {}
  /\ overlap = 0

Serve(h) ==
  \/ FindVisitor(h) \/ CreateVisitor(h) \/ FindChat(h) \/ CreateChat(h)
  \/ StoreMessage(h) \/ Confirm(h) \/ Reject(h)

Next ==
  \/ \E h \in WidgetHandlers : Serve(h) \/ \E m \in WidgetMessages : Receive(h, m)
  \/ \E i \in DOMAIN chats : CloseChat(i)

\* Node goes on with a message it has received.
WidgetFairness == \A h \in WidgetHandlers : WF_widgetVars(Serve(h))

Spec == Init /\ [][Next]_widgetVars /\ WidgetFairness

-----------------------------------------------------------------------------
\* What initWidget and getConversationHistory may show a visitor.
Histories(v) ==
  {{m \in WidgetMessages : chatRows[m] = c} : c \in UNION {OpenChats(l) : l \in LeadsOfVisitor(v)}}

TypeOK ==
  /\ visitorLeads \in Seq(Visitors)
  /\ \A i \in DOMAIN chats : chats[i].lead \in DOMAIN visitorLeads
  /\ \A m \in WidgetMessages : chatRows[m] \in DOMAIN chats \cup {NoChat}
  /\ confirmed \cap rejected = {}

\* A message that was confirmed is stored and published, in a conversation of
\* its author (processMessage).
ConfirmedIsKept ==
  \A m \in confirmed :
    /\ m \in published /\ chatRows[m] # NoChat
    /\ visitorLeads[chats[chatRows[m]].lead] = Author[m]

\* Unless messages of a visitor overlapped, every one that was confirmed is in
\* the history the visitor is shown, until its conversation is closed
\* (getConversationHistory).
ConfirmedIsShown ==
  \A m \in confirmed :
    overlap <= 1 /\ chats[chatRows[m]].active => \A shown \in Histories(Author[m]) : m \in shown

\* Every message is answered: confirmed or rejected.
MessagesAreAnswered ==
  \A m \in WidgetMessages : (\E h \in WidgetHandlers : serving[h].msg = m) ~> m \in confirmed \cup rejected
=============================================================================
