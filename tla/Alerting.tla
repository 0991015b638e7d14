-------------------------------- MODULE Alerting --------------------------------
(***************************************************************************)
(* Alerts of one scheduled task: evaluate_window of app/notifier.py,       *)
(* _maybe_send_alert of app/scheduler.py and the tables it works on, which *)
(* the profile and alert endpoints of app/server.py change as well.  The   *)
(* task's row is read before the benchmark, which may take half an hour;   *)
(* its alert_state is written back as a whole at the end.  Every statement *)
(* and every card is one step.  A site has one model, so a cell of the     *)
(* code is a name here.                                                    *)
(***************************************************************************)
EXTENDS Integers, Sequences, FiniteSets, SequencesExt

CONSTANTS Name,                \* names of profiles
          Window,              \* the most rounds the window of the alert rules holds
          MinRounds,           \* rounds that never leave it: Window in count mode,
                               \* value / schedule_value in minute and time mode
          fail_consecutive, fail_in_window, recover_consecutive,   \* alert_rules
          Overlap,             \* users change sites and mute alarms during an execution
          Edits,               \* the requests users make
          MaxFaults            \* bound: statements that fail, timeouts

Edit == {"create", "delete", "rename", "ids", "ack"}

ASSUME RulesAssumption ==
  /\ {Window, fail_consecutive, fail_in_window, recover_consecutive} \subseteq Nat \ {0}
  /\ MinRounds \in 0..Window
  /\ Overlap \in BOOLEAN
  /\ Edits \subseteq Edit
  /\ MaxFaults \in Nat

VARIABLES
  sites,         \* names in the table profiles
  profile_ids,   \* of the scheduled task
  results,       \* per name the rounds in the window, TRUE for a bad one
  alert_state,   \* of the scheduled task, per name
  acks,          \* names in the table alert_acks
  broken,        \* the sites whose upstream fails
  exec,          \* the execution in flight
  card,          \* history: the last card that was sent about a site
  faults

tables == <<sites, profile_ids, results, alert_state, acks>>
vars == <<tables, broken, exec, card, faults>>

State == {"none", "ok", "alerting"}

\* The local variables of _run_scheduled_task and _maybe_send_alert.
Execution ==
  [pc: {"idle", "begun", "probing", "cells", "judging", "alerting", "recovering",
        "clearing", "saving"},
   prev: [Name -> State],          \* alert_state in task_row
   ids: SUBSET Name,               \* profile_ids in task_row
   todo: SUBSET Name,              \* sites whose round is not over, by their name then
   fresh: SUBSET Name,             \* names under which this round's results are found
   cells: SUBSET Name,
   new: [Name -> State],           \* new_states
   alerts: SUBSET Name,
   recovers: SUBSET Name]

Idle == [pc |-> "idle", prev |-> [n \in Name |-> "none"], ids |-> {}, todo |-> {},
         fresh |-> {}, cells |-> {}, new |-> [n \in Name |-> "none"],
         alerts |-> {}, recovers |-> {}]

TypeOK ==
  /\ sites \subseteq Name /\ profile_ids \subseteq Name
  /\ results \in [Name -> BoundedSeq(BOOLEAN, Window)]
  /\ alert_state \in [Name -> State]
  /\ acks \subseteq Name
  /\ broken \subseteq Name
  /\ exec \in Execution
  /\ card \in [Name -> {"none", "alert", "recover"}]
  /\ faults \in 0..MaxFaults
---------------------------------------------------------------------------------
Bad(rounds) == {i \in DOMAIN rounds : rounds[i]}

\* The rounds at the end of the window are all bad, or all good.
EndsWith(rounds, bad, length) ==
  /\ Len(rounds) >= length
  /\ \A i \in Len(rounds) - length + 1 .. Len(rounds) : rounds[i] = bad

\* evaluate_window: the new state.  With fewer than two rounds it keeps the old one;
\* the action is an alert or a recovery whenever the state changes.
evaluate_window(rounds, prev) ==
  IF Len(rounds) < 2 THEN prev
  ELSE IF prev = "alerting"
       THEN IF /\ EndsWith(rounds, FALSE, recover_consecutive)
               /\ Cardinality(Bad(rounds)) < fail_in_window
            THEN "ok" ELSE "alerting"
       ELSE IF \/ EndsWith(rounds, TRUE, fail_consecutive)
               \/ Cardinality(Bad(rounds)) >= fail_in_window
            THEN "alerting" ELSE "ok"

\* _cell_state: a cell without a state counts as "ok".
CellState(states, n) == IF states[n] = "none" THEN "ok" ELSE states[n]

\* The rounds that get_task_window_rounds_by_cell returns once bad has been added.
Round(n, bad) ==
  LET all == Append(results[n], bad)
  IN  IF Len(all) > Window THEN Tail(all) ELSE all
---------------------------------------------------------------------------------
Step(place) == exec' = [exec EXCEPT !.pc = place]

\* _run_scheduled_task reads the row, ...
Begin ==
  /\ exec.pc = "idle"
  /\ exec' = [Idle EXCEPT !.pc = "begun", !.prev = alert_state, !.ids = profile_ids]
  /\ UNCHANGED <<tables, broken, card, faults>>

\* ... then the profiles: the benchmark runs for those that it finds, or it returns.
Probe ==
  /\ exec.pc = "begun"
  /\ exec' = IF exec.ids \cap sites = {} THEN Idle
             ELSE [exec EXCEPT !.pc = "probing", !.todo = exec.ids \cap sites]
  /\ UNCHANGED <<tables, broken, card, faults>>

\* save_result: the round of a site is stored under the name it had at the start.
SaveRound(n) ==
  /\ exec.pc = "probing" /\ n \in exec.todo
  /\ results' = [results EXCEPT ![n] = Round(n, n \in broken)]
  /\ exec' = [exec EXCEPT !.todo = @ \ {n}, !.fresh = @ \cup {n}]
  /\ UNCHANGED <<sites, profile_ids, alert_state, acks, broken, card, faults>>

\* Saving a result fails, which is only logged.
SaveFails(n) ==
  /\ exec.pc = "probing" /\ n \in exec.todo
  /\ faults < MaxFaults
  /\ faults' = faults + 1
  /\ exec' = [exec EXCEPT !.todo = @ \ {n}]
  /\ UNCHANGED <<tables, broken, card>>

\* get_run_success_rate_by_cell: only the cells of this round are evaluated.
ReadCells ==
  /\ exec.pc = "probing" /\ exec.todo = {}
  /\ exec' = IF exec.fresh = {} THEN Idle
             ELSE [exec EXCEPT !.pc = "judging", !.cells = exec.fresh]
  /\ UNCHANGED <<tables, broken, card, faults>>

\* The place of the first step that has something to do.
After(x) == IF x.alerts # {} THEN "alerting"
            ELSE IF x.recovers # {} THEN "recovering"
            ELSE "saving"

\* get_task_window_rounds_by_cell, and every cell is judged.  A cell that was not
\* probed in this round keeps its state if it is alerting, and is dropped if not.
Judge ==
  /\ exec.pc = "judging"
  /\ LET Judged(n) == evaluate_window(results[n], CellState(exec.prev, n))
         new == [n \in Name |->
                   IF n \in exec.cells THEN Judged(n)
                   ELSE IF exec.prev[n] = "alerting" THEN "alerting" ELSE "none"]
         judged == [exec EXCEPT
                      !.new = new,
                      !.alerts = {n \in exec.cells : CellState(exec.prev, n) = "ok" /\ new[n] = "alerting"},
                      !.recovers = {n \in exec.cells : exec.prev[n] = "alerting" /\ new[n] = "ok"}]
     IN  exec' = [judged EXCEPT !.pc = After(judged)]
  /\ UNCHANGED <<tables, broken, card, faults>>

Send(kind, about) ==
  /\ card' = [n \in Name |-> IF n \in about THEN kind ELSE card[n]]
  /\ UNCHANGED <<tables, broken, faults>>

\* The cards are sent, whether or not they arrive: send_webhook never raises.
SendAlert ==
  /\ exec.pc = "alerting"
  /\ Send("alert", exec.alerts)
  /\ Step(IF exec.recovers # {} THEN "recovering" ELSE "saving")

SendRecover ==
  /\ exec.pc = "recovering"
  /\ Send("recover", exec.recovers)
  /\ Step("clearing")

\* Mutant: recovery leaves the acknowledgement in place.
ClearNothing(n) ==
  /\ exec.pc = "clearing" /\ n \in exec.recovers
  /\ exec' = [exec EXCEPT !.recovers = @ \ {n}, !.pc = IF exec.recovers = {n} THEN "saving" ELSE @]
  /\ UNCHANGED <<tables, broken, card, faults>>

\* remove_alert_ack, one statement for each cell that has recovered.
ClearAck(n) ==
  /\ exec.pc = "clearing" /\ n \in exec.recovers
  /\ acks' = acks \ {n}
  /\ exec' = [exec EXCEPT !.recovers = @ \ {n}, !.pc = IF exec.recovers = {n} THEN "saving" ELSE @]
  /\ UNCHANGED <<sites, profile_ids, results, alert_state, broken, card, faults>>

SaveIf(changed) ==
  /\ exec.pc = "saving"
  /\ alert_state' = IF changed THEN exec.new ELSE alert_state
  /\ exec' = Idle
  /\ UNCHANGED <<sites, profile_ids, results, acks, broken, card, faults>>

\* Mutants: the states are written back only if a site went down, or only if one
\* recovered.
SaveAlerts == SaveIf(exec.alerts # {})
SaveRecovers == SaveIf({n \in Name : exec.prev[n] = "alerting" /\ exec.new[n] = "ok"} # {})

\* The states are written back as a whole, if they are not those that were read.
SaveState == SaveIf(exec.new # exec.prev)

\* A statement of the evaluation raises, or the timeout of the execution comes: the
\* rest is dropped.
Abort ==
  /\ exec.pc # "idle"
  /\ faults < MaxFaults
  /\ faults' = faults + 1
  /\ exec' = Idle
  /\ UNCHANGED <<tables, broken, card>>
---------------------------------------------------------------------------------
May(edit) == edit \in Edits /\ (Overlap \/ exec.pc = "idle")

\* save_profile with a new name.
CreateSite(n) ==
  /\ May("create") /\ n \notin sites
  /\ sites' = sites \cup {n}
  /\ UNCHANGED <<profile_ids, results, alert_state, acks, broken, exec, card, faults>>

\* Mutant: the alert states of the task are left alone.
DeleteProfileOnly(n) ==
  /\ May("delete") /\ n \in sites
  /\ sites' = sites \ {n}
  /\ acks' = acks \ {n}
  /\ broken' = broken \ {n}
  /\ card' = [card EXCEPT ![n] = "none"]
  /\ UNCHANGED <<profile_ids, results, alert_state, exec, faults>>

\* delete_profile, one transaction.  Results and profile_ids keep the name.
DeleteProfile(n) ==
  /\ May("delete") /\ n \in sites
  /\ sites' = sites \ {n}
  /\ alert_state' = [alert_state EXCEPT ![n] = "none"]
  /\ acks' = acks \ {n}
  /\ broken' = broken \ {n}
  /\ card' = [card EXCEPT ![n] = "none"]
  /\ UNCHANGED <<profile_ids, results, exec, faults>>

Moved(S, old, new) == IF old \in S THEN (S \ {old}) \cup {new} ELSE S

Transfer(f, old, new, empty) == [f EXCEPT ![new] = f[old], ![old] = empty]

\* rename_profile, one transaction.  The name is not one whose rounds are still in
\* the window (a bound on what users do); results of this round move along.
RenameProfile(old, new) ==
  /\ May("rename") /\ old \in sites /\ new \notin sites /\ results[new] = <<>>
  /\ sites' = Moved(sites, old, new)
  /\ profile_ids' = Moved(profile_ids, old, new)
  /\ results' = Transfer(results, old, new, <<>>)
  /\ alert_state' = IF alert_state[old] = "none" THEN alert_state
                    ELSE Transfer(alert_state, old, new, "none")
  /\ acks' = Moved(acks, old, new)
  /\ broken' = Moved(broken, old, new)
  /\ card' = Transfer(card, old, new, "none")
  /\ exec' = [exec EXCEPT !.fresh = Moved(@, old, new)]
  /\ UNCHANGED faults

\* update_schedule with other profile_ids.
EditIds(ids) ==
  /\ May("ids") /\ ids # profile_ids
  /\ profile_ids' = ids
  /\ UNCHANGED <<sites, results, alert_state, acks, broken, exec, card, faults>>

\* active_alerts shows the alarms of the sites that exist.
Shown == {n \in sites : alert_state[n] = "alerting"}

\* ack_alert and unack_alert, for what the overview shows.
Ack(n) ==
  /\ May("ack") /\ n \in Shown
  /\ acks' = acks \cup {n}
  /\ UNCHANGED <<sites, profile_ids, results, alert_state, broken, exec, card, faults>>

Unack(n) ==
  /\ May("ack") /\ n \in acks
  /\ acks' = acks \ {n}
  /\ UNCHANGED <<sites, profile_ids, results, alert_state, broken, exec, card, faults>>

\* An upstream breaks or is repaired.
Turn(n) ==
  /\ n \in sites
  /\ broken' = IF n \in broken THEN broken \ {n} ELSE broken \cup {n}
  /\ UNCHANGED <<tables, exec, card, faults>>

\* Time passes and the oldest round leaves the window.
Expire(n) ==
  /\ Len(results[n]) > MinRounds
  /\ exec.pc = "idle"
  /\ results' = [results EXCEPT ![n] = Tail(@)]
  /\ UNCHANGED <<sites, profile_ids, alert_state, acks, broken, exec, card, faults>>

Init ==
  /\ sites \in SUBSET Name \ {{}}
  /\ profile_ids = sites
  /\ results = [n \in Name |-> <<>>]
  /\ alert_state = [n \in Name |-> "none"]
  /\ acks = {}
  /\ broken = {}
  /\ exec = Idle
  /\ card = [n \in Name |-> "none"]
  /\ faults = 0

Execute ==
  \/ Begin \/ Probe \/ ReadCells \/ Judge \/ SendAlert \/ SendRecover \/ SaveState
  \/ \E n \in Name : SaveRound(n) \/ ClearAck(n)

Next ==
  \/ Execute
  \/ Abort
  \/ \E n \in Name : \/ SaveFails(n) \/ CreateSite(n) \/ DeleteProfile(n)
                     \/ Ack(n) \/ Unack(n) \/ Turn(n) \/ Expire(n)
  \/ \E old, new \in Name : RenameProfile(old, new)
  \/ \E ids \in SUBSET Name : EditIds(ids)

Spec == Init /\ [][Next]_vars

\* The scheduler executes the task again and again (KeepsRunning of Scheduler).
FairSpec == Spec /\ WF_vars(Execute)
---------------------------------------------------------------------------------
AtRest == exec.pc = "idle"

\* The overview agrees with the chat: between two executions an alarm is shown for a
\* site exactly if the last card sent about it was an alert, through renames,
\* deletions, edits and rounds in which the site was not probed.
ShownIsWhatWasSent ==
  AtRest /\ faults = 0 =>
    \A n \in Name : alert_state[n] = "alerting" <=> card[n] = "alert"

\* db.py:671: a deleted site leaves no alarm behind.
DeletedSitesForgotten ==
  AtRest => \A n \in Name : alert_state[n] = "alerting" => n \in sites

Panel == INSTANCE AlarmPanel WITH
           raised <- {n \in Name : alert_state[n] = "alerting"}, muted <- acks

\* Muting lasts until the site has recovered once, and a new alarm is never muted.
ImplementsPanel == Panel!PanelSpec

\* A site that is probed and stays down is shown as alerting in the end, and one that
\* stays up is not, whatever rounds failed to be stored or evaluated before.
Probed(n) == n \in sites /\ n \in profile_ids

DownIsAlerted ==
  \A n \in Name : <>[](Probed(n) /\ n \in broken) => <>[](alert_state[n] = "alerting")

UpIsRecovered ==
  \A n \in Name : <>[](Probed(n) /\ n \notin broken) => <>[](alert_state[n] # "alerting")
=================================================================================
