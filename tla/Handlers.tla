-------------------------------- MODULE Handlers --------------------------------
(***************************************************************************)
(* What the models of the HTTP handlers of app/server.py share.  A handler *)
(* runs between two awaits without interruption and every call of          *)
(* app/db.py is an await, so a request in flight is what it has read so    *)
(* far and the point where it goes on.                                     *)
(***************************************************************************)
EXTENDS Integers, FiniteSets

CONSTANTS Handler,     \* requests in flight at a time (bound)
          Null         \* no row, no request

ASSUME HandlersAssumption == IsFiniteSet(Handler)

Idle(request) == {h \in Handler : request[h] = Null}
InFlight(request) == Handler \ Idle(request)

\* Pairs of kinds in apart do not overlap: the assumption some properties need.
MayBegin(request, kind, apart) ==
  \A h \in InFlight(request) : <<kind, request[h].kind>> \notin apart

Symmetric(apart) == \A pair \in apart : <<pair[2], pair[1]>> \in apart
=================================================================================
