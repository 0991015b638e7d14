-------------------------------- MODULE Accounts --------------------------------
(***************************************************************************)
(* The users, their scheduled tasks and their notifiers: the handlers of   *)
(* app/server.py that register, promote and remove users, that create,     *)
(* edit and delete schedules and that create and delete notifiers, over    *)
(* the statements of app/db.py.  Rows are abstracted to the columns the    *)
(* handlers compare.  Removing a user removes the rows that refer to it    *)
(* (foreign_keys = ON, ON DELETE CASCADE); alert_notifier_id refers to     *)
(* nothing as far as the database knows.                                   *)
(***************************************************************************)
EXTENDS Handlers

CONSTANTS User, Schedule, Notifier,   \* ids: of accounts, of rows (bounds)
          Admins,                     \* the users that are admins at first
          MaxSchedules,               \* MAX_SCHEDULES_PER_USER
          Apart                       \* pairs of kinds of requests that do not overlap

ASSUME AccountsAssumption ==
  /\ Null \notin User \cup Schedule \cup Notifier
  /\ Admins \subseteq User /\ Admins # {}
  /\ MaxSchedules \in Nat \ {0}
  /\ Symmetric(Apart)

VARIABLES
  role,       \* users: "new", "user" or "admin", "gone"
  schedule,   \* scheduled_tasks: [owner, alert_notifier_id] or Null
  notifier,   \* notifiers: the owner or Null
  used,       \* ids given out: AUTOINCREMENT never gives one twice
  call,       \* the requests in flight
  outranked   \* whoever changed a role or removed a user last was no admin any more

accountVars == <<role, schedule, notifier, used, call, outranked>>

NoNotifier == 0      \* alert_notifier_id of a schedule that alerts nobody

AccountsTypeOK ==
  /\ role \in [User -> {"new", "user", "admin", "gone"}]
  /\ schedule \in [Schedule ->
       [owner: User, alert_notifier_id: Notifier \cup {NoNotifier}] \cup {Null}]
  /\ notifier \in [Notifier -> User \cup {Null}]
  /\ used \subseteq Schedule \cup Notifier
  /\ \A h \in InFlight(call) : /\ call[h].user \in User
                             /\ call[h].pc \in {"count", "notifier", "write"}
  /\ outranked \in BOOLEAN
---------------------------------------------------------------------------------
Registered(u) == role[u] \in {"user", "admin"}
Owned(u) == {s \in Schedule : schedule[s] # Null /\ schedule[s].owner = u}
References(n) == {s \in Schedule : schedule[s] # Null /\ schedule[s].alert_notifier_id = n}
NotifierOf(n, u) == n = NoNotifier \/ notifier[n] = u

\* get_current_user, with the role the users table has now; require_admin is called on top.
Request(h, u, kind) ==
  /\ call[h] = Null /\ Registered(u) /\ MayBegin(call, kind, Apart)
  /\ UNCHANGED <<role, schedule, notifier, used, outranked>>
Begin(h, fields) == call' = [call EXCEPT ![h] = fields]
Reply(h) == call' = [call EXCEPT ![h] = Null]
GoOn(h, pc) == call' = [call EXCEPT ![h].pc = pc]
At(h, kind, pc) == call[h] # Null /\ call[h].kind = kind /\ call[h].pc = pc
---------------------------------------------------------------------------------
\* create_schedule counts the user's schedules, ...
CreateSchedule(h, u, n) ==
  /\ Request(h, u, "create")
  /\ Begin(h, [kind |-> "create", pc |-> "count", user |-> u, notifier |-> n])

\* Mutant: the limit compared with >.
WithinLimitOrAt(u) == Cardinality(Owned(u)) <= MaxSchedules

WithinLimit(u) == Cardinality(Owned(u)) < MaxSchedules

CountSchedules(h) ==
  /\ At(h, "create", "count")
  /\ IF WithinLimit(call[h].user) THEN GoOn(h, "notifier") ELSE Reply(h)
  /\ UNCHANGED <<role, schedule, notifier, used, outranked>>

\* ... _extract_alert_fields looks the notifier up, here and in update_schedule, ...
CheckNotifier(h) ==
  /\ \E kind \in {"create", "update"} : At(h, kind, "notifier")
  /\ IF NotifierOf(call[h].notifier, call[h].user) THEN GoOn(h, "write") ELSE Reply(h)
  /\ UNCHANGED <<role, schedule, notifier, used, outranked>>

\* ... and create_scheduled_task inserts the row, unless the user is gone.
InsertSchedule(h, s) ==
  /\ At(h, "create", "write") /\ Registered(call[h].user) /\ s \notin used
  /\ schedule' = [schedule EXCEPT
       ![s] = [owner |-> call[h].user, alert_notifier_id |-> call[h].notifier]]
  /\ used' = used \cup {s}
  /\ Reply(h)
  /\ UNCHANGED <<role, notifier, outranked>>

InsertRefused(h) ==
  /\ At(h, "create", "write") /\ ~Registered(call[h].user)
  /\ Reply(h) /\ UNCHANGED <<role, schedule, notifier, used, outranked>>

\* update_schedule and delete_schedule read the row first; nobody edits another's schedule.
EditSchedule(h, u, kind, s, n) ==
  /\ Request(h, u, kind) /\ s \in Owned(u)
  /\ Begin(h, [kind |-> kind, pc |-> IF kind = "update" THEN "notifier" ELSE "write",
               user |-> u, notifier |-> n, schedule |-> s])

\* An UPDATE or DELETE finds no row if the schedule was deleted in the meantime.
WriteSchedule(h) ==
  /\ \E kind \in {"update", "delete"} : At(h, kind, "write")
  /\ LET s == call[h].schedule
     IN schedule' = [schedule EXCEPT ![s] =
          IF @ = Null \/ call[h].kind = "delete" THEN Null
          ELSE [@ EXCEPT !.alert_notifier_id = call[h].notifier]]
  /\ Reply(h) /\ UNCHANGED <<role, notifier, used, outranked>>
---------------------------------------------------------------------------------
\* create_notifier_endpoint.
CreateNotifier(u, n) ==
  /\ Registered(u) /\ n \notin used
  /\ notifier' = [notifier EXCEPT ![n] = u]
  /\ used' = used \cup {n}
  /\ UNCHANGED <<role, schedule, call, outranked>>

\* delete_notifier_endpoint reads the row; delete_notifier counts the schedules that use
\* it and deletes it, in a transaction that keeps no other from committing in between.
DeleteNotifier(h, u, n) ==
  /\ Request(h, u, "unbind") /\ notifier[n] = u
  /\ Begin(h, [kind |-> "unbind", pc |-> "count", user |-> u, notifier |-> n])

\* Mutant: a notifier that one schedule uses counts as free.
UnreferencedButOne(n) == Cardinality(References(n)) <= 1

Unreferenced(n) == References(n) = {}

CountReferences(h) ==
  /\ At(h, "unbind", "count")
  /\ IF Unreferenced(call[h].notifier) THEN GoOn(h, "write") ELSE Reply(h)
  /\ UNCHANGED <<role, schedule, notifier, used, outranked>>

RemoveNotifier(h) ==
  /\ At(h, "unbind", "write")
  /\ notifier' = [notifier EXCEPT ![call[h].notifier] = Null]
  /\ Reply(h) /\ UNCHANGED <<role, schedule, used, outranked>>
---------------------------------------------------------------------------------
\* auth_register: accounts that register themselves are never admins.
RegisterUser(u) ==
  /\ role[u] = "new"
  /\ role' = [role EXCEPT ![u] = "user"]
  /\ UNCHANGED <<schedule, notifier, used, call, outranked>>

\* Mutant: an admin may act on itself.
EvenSelf(u, target) == TRUE

NotSelf(u, target) == u # target

\* admin_update_user_role and admin_delete_user: require_admin reads the role of the
\* caller, the statement is executed later, whatever that role is by then.
Administer(h, u, kind, target, to) ==
  /\ Request(h, u, kind) /\ role[u] = "admin" /\ NotSelf(u, target)
  /\ Begin(h, [kind |-> kind, pc |-> "write", user |-> u, target |-> target, to |-> to])

StillAdmin(u) == role[u] = "admin"

UpdateRole(h) ==
  /\ At(h, "role", "write")
  /\ outranked' = ~StillAdmin(call[h].user)
  /\ role' = [role EXCEPT ![call[h].target] = IF Registered(call[h].target) THEN call[h].to ELSE @]
  /\ Reply(h) /\ UNCHANGED <<schedule, notifier, used>>

DeleteUser(h) ==
  /\ At(h, "remove", "write")
  /\ outranked' = ~StillAdmin(call[h].user)
  /\ LET u == call[h].target
     IN /\ role' = [role EXCEPT ![u] = IF Registered(u) THEN "gone" ELSE @]
        /\ schedule' = [s \in Schedule |-> IF s \in Owned(u) THEN Null ELSE schedule[s]]
        /\ notifier' = [n \in Notifier |-> IF notifier[n] = u THEN Null ELSE notifier[n]]
  /\ Reply(h) /\ UNCHANGED used
---------------------------------------------------------------------------------
AccountsInit ==
  /\ role = [u \in User |-> IF u \in Admins THEN "admin" ELSE "new"]
  /\ schedule = [s \in Schedule |-> Null]
  /\ notifier = [n \in Notifier |-> Null]
  /\ used = {}
  /\ call = [h \in Handler |-> Null]
  /\ outranked = FALSE

AccountsNext ==
  \/ \E h \in Handler, u \in User :
       \/ \E n \in Notifier \cup {NoNotifier} :
            \/ CreateSchedule(h, u, n)
            \/ \E s \in Schedule : EditSchedule(h, u, "update", s, n)
       \/ \E s \in Schedule : EditSchedule(h, u, "delete", s, NoNotifier)
       \/ \E n \in Notifier : DeleteNotifier(h, u, n)
       \/ \E target \in User :
            \/ \E to \in {"user", "admin"} : Administer(h, u, "role", target, to)
            \/ Administer(h, u, "remove", target, "user")
  \/ \E h \in Handler :
       \/ CountSchedules(h) \/ CheckNotifier(h) \/ InsertRefused(h) \/ WriteSchedule(h)
       \/ CountReferences(h) \/ RemoveNotifier(h) \/ UpdateRole(h) \/ DeleteUser(h)
       \/ \E s \in Schedule : InsertSchedule(h, s)
  \/ \E u \in User : RegisterUser(u) \/ \E n \in Notifier : CreateNotifier(u, n)

AccountsSpec == AccountsInit /\ [][AccountsNext]_accountVars
---------------------------------------------------------------------------------
\* server.py:2187: the limit on schedules is checked in one statement and the row inserted
\* in another, so it is exceeded by the requests that overlap and by no more.
SchedulesBounded ==
  \A u \in User : Cardinality(Owned(u)) <= MaxSchedules + Cardinality(Handler) - 1

\* server.py:2078 and db.py:906: a schedule's notifier is there and belongs to its owner,
\* provided that a notifier is not deleted while a schedule is being saved.
NotifiersResolve ==
  \A s \in Schedule :
    schedule[s] # Null => NotifierOf(schedule[s].alert_notifier_id, schedule[s].owner)

\* server.py:762 and 770: an admin cannot demote or remove itself.  No admin is left only
\* after two of them have acted at once, and one was obeyed although the other had taken
\* its role away.
AdminRemains == (\E u \in User : role[u] = "admin") \/ outranked
=================================================================================
