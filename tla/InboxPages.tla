----------------------------- MODULE InboxPages -----------------------------
(***************************************************************************)
(* The notification inbox of a signed-in user: the layout's unread badge,    *)
(* polled on every page, and the Notifications page, polled while shown.      *)
(* Marking one read changes the row and the badge by the answer alone; the    *)
(* polls put right what that gets wrong.  The notifications themselves are    *)
(* notification-service's, which NotificationPipeline fills.                 *)
(***************************************************************************)
EXTENDS StoreThunks

CONSTANTS
  MaxNotices,  \* bounds the notifications the user will ever get
  ListLimit    \* the most a list holds; the page asks for no other limit and no other part

ASSUME InboxConstants == MaxNotices \in Nat /\ ListLimit \in Nat \ {0}

VARIABLES
  inbox,       \* notification-service: the status of each notification, numbered as stored
  inboxSlice,  \* items (statuses by notification) and unread; loading is only drawn
  inboxOpen    \* the Notifications page is shown

inboxPageVars == <<inbox, inboxSlice, inboxOpen>>

Notices == 1..MaxNotices

UnreadCount == Cardinality({n \in DOMAIN inbox : inbox[n] = "SENT"})

\* list_for_user: newest first, as far as the limit.
Newest == {n \in DOMAIN inbox : n + ListLimit \notin DOMAIN inbox}
Listed == [n \in Newest |-> inbox[n]]

InboxPagesInit ==
  /\ inbox = [n \in {} |-> None]
  /\ inboxSlice = [items |-> [n \in {} |-> None], unread |-> 0]
  /\ inboxOpen = FALSE

\* The page's effect asks for the list and the count.
OpenInbox ==
  /\ ~inboxOpen /\ Room
  /\ inboxOpen' = TRUE
  /\ calls' = Sent(Sent(calls, "fetchNotifications", None), "fetchUnreadCount", None)
  /\ UNCHANGED <<inbox, inboxSlice>>

LeaveInbox ==
  /\ inboxOpen /\ inboxOpen' = FALSE
  /\ UNCHANGED <<calls, inbox, inboxSlice>>

\* The page's interval.
ListTick ==
  /\ inboxOpen /\ Room
  /\ calls' = Sent(calls, "fetchNotifications", None)
  /\ UNCHANGED inboxPageVars

\* Mutant: the layout asks only while a count is shown.
UnreadTickShown ==
  /\ inboxSlice.unread > 0 /\ Room
  /\ calls' = Sent(calls, "fetchUnreadCount", None)
  /\ UNCHANGED inboxPageVars

\* The layout's first call and its interval.
UnreadTick ==
  /\ Room
  /\ calls' = Sent(calls, "fetchUnreadCount", None)
  /\ UNCHANGED inboxPageVars

\* The button of a row shown unread; nothing disables it while the call is out.
MarkRead(n) ==
  /\ inboxOpen /\ Room
  /\ n \in DOMAIN inboxSlice.items /\ inboxSlice.items[n] # "READ"
  /\ calls' = Sent(calls, "markRead", n)
  /\ UNCHANGED inboxPageVars

-----------------------------------------------------------------------------
\* The consumer stores one more.
Notify(n) ==
  /\ n = Cardinality(DOMAIN inbox) + 1
  /\ inbox' = [m \in DOMAIN inbox \cup {n} |-> IF m = n THEN "SENT" ELSE inbox[m]]
  /\ UNCHANGED <<calls, inboxSlice, inboxOpen>>

\* mark_read is idempotent and answers with the row as it is.
ServeInbox(i) ==
  /\ \/ On(i, "fetchNotifications") /\ Answer(i, Listed) /\ UNCHANGED inbox
     \/ On(i, "fetchUnreadCount") /\ Answer(i, UnreadCount) /\ UNCHANGED inbox
     \/ /\ On(i, "markRead")
        /\ Answer(i, "READ")
        /\ inbox' = [inbox EXCEPT ![calls[i].arg] = "READ"]
  /\ UNCHANGED <<inboxSlice, inboxOpen>>

\* Mutant: without Math.max.
LessOneUnchecked(n) == n - 1

LessOne(n) == IF n = 0 THEN 0 ELSE n - 1

\* The slice's three cases.  A row marked read takes one off the count, never below none.
InboxFulfilled(i) ==
  LET n == calls[i].arg
  IN  /\ \/ /\ Fulfilled(i, "fetchNotifications")
            /\ inboxSlice' = [inboxSlice EXCEPT !.items = calls[i].data]
         \/ /\ Fulfilled(i, "fetchUnreadCount")
            /\ inboxSlice' = [inboxSlice EXCEPT !.unread = calls[i].data]
         \/ /\ Fulfilled(i, "markRead")
            /\ inboxSlice' = [inboxSlice EXCEPT
                 !.items = IF n \in DOMAIN @ THEN [@ EXCEPT ![n] = "READ"] ELSE @,
                 !.unread = LessOne(@)]
      /\ calls' = Done(i)
      /\ UNCHANGED <<inbox, inboxOpen>>

\* The slice has no case for a rejection.
InboxRejected(i) ==
  /\ calls[i].at = "rejected"
  /\ calls' = Done(i)
  /\ UNCHANGED inboxPageVars

InboxActs ==
  \/ OpenInbox \/ LeaveInbox \/ ListTick \/ UnreadTick
  \/ \E n \in Notices : MarkRead(n) \/ Notify(n)

-----------------------------------------------------------------------------
InboxPagesTypeOK ==
  /\ DOMAIN inbox \subseteq Notices
  /\ DOMAIN inboxSlice.items \subseteq Notices
  /\ inboxSlice.unread \in 0..Cardinality(Notices)

\* "The inbox polls instead" (notificationsSlice.ts): once no more notifications come and
\* calls stop failing, the badge counts what is unread and the page, while shown, lists
\* the newest of what is stored, as far as its one list goes - whatever was clicked twice,
\* lost, or answered out of order before.
InboxConverges ==
  <>[][\A i \in CallSlots : calls[i].at # "rejected" => calls'[i].at # "rejected"]_calls
    => <>[](/\ inboxSlice.unread = UnreadCount
            /\ inboxOpen => inboxSlice.items = Listed)
=============================================================================
