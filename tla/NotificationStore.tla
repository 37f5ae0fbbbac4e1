--------------------------- MODULE NotificationStore ---------------------------
(***************************************************************************)
(* The tables the reminder scheduler works on: member_notification, which  *)
(* officers edit with slash commands, and the two idempotency tables       *)
(* reminder_sent and member_notification_sent, which mirror each other and *)
(* are kept here as one set of claimed slots.  A slot is one reminder (or  *)
(* one notification) on one calendar date.                                 *)
(***************************************************************************)
EXTENDS Naturals

CONSTANTS
    Reminder,     \* the rows of `reminders'; no operation of the bot edits them
    Name,         \* the names officers give their notifications
    Schedule,     \* (anchor_date_utc, cadence) pairs
    Occurs,       \* the occurrence dates of a schedule (MemberSchedule)
    LastDate,     \* bound: the last calendar date
    LastTime,     \* bound: the last minute of a day
    MaxId,        \* bound: how many notifications are ever created
    NoRow         \* "no such row"

Date == 0 .. LastDate
Time == 0 .. LastTime
NotifId == 1 .. MaxId

Row == [name : Name, schedule : Schedule, fire_time : Time, enabled : BOOLEAN]

ReminderSlot == [kind : {"channel"}, id : Reminder, date : Date]
MemberSlot == [kind : {"dm"}, id : NotifId, date : Date]
Slot == ReminderSlot \cup MemberSlot

ASSUME StoreAssumption ==
    /\ LastDate \in Nat
    /\ LastTime \in Nat
    /\ MaxId \in Nat
    /\ Occurs \in [Schedule -> SUBSET Date]
    /\ NoRow \notin Row

VARIABLES
    notifications,  \* member_notification, by id
    next_id,        \* the id the next INSERT gets; ids are not reused
    sent            \* reminder_sent and member_notification_sent

storeVars == <<notifications, next_id, sent>>

StoreTypeOK ==
    /\ notifications \in [NotifId -> Row \cup {NoRow}]
    /\ next_id \in 1 .. MaxId + 1
    /\ sent \subseteq Slot

StoreInit ==
    /\ notifications = [i \in NotifId |-> NoRow]
    /\ next_id = 1
    /\ sent = {}

Exists(i) == notifications[i] # NoRow

(***************************************************************************)
(* The sent stores.  An INSERT fails (and mark_sent answers FALSE) when    *)
(* the UNIQUE pair is there already, and, for a notification, when the row *)
(* the foreign key names is not.                                           *)
(***************************************************************************)
\* Mutant of Claimable: no UNIQUE constraint.
ClaimableTwice(s) == s.kind = "dm" => Exists(s.id)

Claimable(s) == s \notin sent /\ (s.kind = "dm" => Exists(s.id))

mark_sent(s) == sent' = sent \cup {s}

\* Mutants of unmark: the DELETE filters by date only; it is never committed.
UnmarkWholeDate(s) == sent' = {x \in sent : x.date # s.date}
UnmarkUncommitted(s) == UNCHANGED sent

unmark(s) == sent' = sent \ {s}

(***************************************************************************)
(* MemberNotificationService.  A call that raises (duplicate name, unknown *)
(* name) changes nothing and is not an action.                             *)
(***************************************************************************)
NameTaken(n) == \E i \in NotifId : Exists(i) /\ notifications[i].name = n

\* Mutant of create: the database reuses the id of a deleted row.
CreateReusingId(row) ==
    /\ next_id <= MaxId
    /\ ~NameTaken(row.name)
    /\ \E i \in NotifId : ~Exists(i) /\ notifications' = [notifications EXCEPT ![i] = row]
    /\ next_id' = next_id + 1
    /\ UNCHANGED sent

create(row) ==
    /\ next_id <= MaxId
    /\ ~NameTaken(row.name)
    /\ notifications' = [notifications EXCEPT ![next_id] = row]
    /\ next_id' = next_id + 1
    /\ UNCHANGED sent

\* The name is the lookup key and is not among the mutable fields.
update(i, row) ==
    /\ Exists(i)
    /\ row.name = notifications[i].name
    /\ notifications' = [notifications EXCEPT ![i] = row]
    /\ UNCHANGED <<next_id, sent>>

\* Mutant of delete: no cascade.
DeleteWithoutCascade(i) ==
    /\ Exists(i)
    /\ notifications' = [notifications EXCEPT ![i] = NoRow]
    /\ UNCHANGED <<next_id, sent>>

\* ON DELETE CASCADE removes the sent rows with the notification.
delete(i) ==
    /\ Exists(i)
    /\ notifications' = [notifications EXCEPT ![i] = NoRow]
    /\ sent' = {s \in sent : ~(s.kind = "dm" /\ s.id = i)}
    /\ UNCHANGED next_id

list_due(d, t) ==
    {s \in MemberSlot :
        /\ s.date = d
        /\ s \notin sent
        /\ Exists(s.id)
        /\ notifications[s.id].enabled
        /\ notifications[s.id].fire_time <= t
        /\ d \in Occurs[notifications[s.id].schedule]}
================================================================================
