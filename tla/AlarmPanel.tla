------------------------------- MODULE AlarmPanel -------------------------------
(***************************************************************************)
(* What alerting promises the people who watch: the alarm of a site is     *)
(* raised or quiet; a raised alarm may be muted and then stays muted until *)
(* it is cleared; an alarm that is raised is not muted already.  A site's  *)
(* alarm moves with its name and goes when the site goes.  Alerting is the *)
(* program's way of doing it.                                              *)
(***************************************************************************)
CONSTANT Name

VARIABLES raised, muted    \* the names of the sites whose alarm is raised, or muted

panelVars == <<raised, muted>>

PanelTypeOK == raised \subseteq Name /\ muted \subseteq raised

\* One evaluation raises and clears the alarms of several sites at once.
Evaluate ==
  \E up, down \in SUBSET Name :
    /\ up \cap (raised \cup muted) = {}
    /\ down \subseteq raised \ muted
    /\ raised' = (raised \ down) \cup up
    /\ UNCHANGED muted

Mute(n) == n \in raised /\ muted' = muted \cup {n} /\ UNCHANGED raised

Unmute(n) == n \in muted /\ muted' = muted \ {n} /\ UNCHANGED raised

Remove(n) == raised' = raised \ {n} /\ muted' = muted \ {n}

\* The set S after old has been renamed to new.
Moved(S, old, new) == IF old \in S THEN (S \ {old}) \cup {new} ELSE S

Move(old, new) ==
  /\ new \notin raised
  /\ raised' = Moved(raised, old, new)
  /\ muted' = Moved(muted, old, new)

PanelInit == raised = {} /\ muted = {}

PanelNext ==
  \/ Evaluate
  \/ \E n \in Name : Mute(n) \/ Unmute(n) \/ Remove(n)
  \/ \E old, new \in Name : Move(old, new)

PanelSpec == PanelInit /\ [][PanelNext]_panelVars
=================================================================================
