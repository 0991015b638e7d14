----------------------------- MODULE ServicesProofs -----------------------------
(***************************************************************************)
(* Theorems about the services that keep their state in the database:      *)
(* Profiles, Accounts and Startup.  They share no state; each theorem is   *)
(* about the specification of one of them.                                 *)
(***************************************************************************)
EXTENDS Profiles, Accounts, Startup, FiniteSetTheorems, TLAPS
-------------------------------------------------------------------------------
(***************************************************************************)
(* Profiles: the key of one site is never stored for another, for any      *)
(* number of profiles, keys and requests, as long as the requests that     *)
(* TakeTurns names do not overlap.                                         *)
(***************************************************************************)
StoredKey == Key \cup {NoKey}

\* The requests in flight, by kind.
Saving == [kind: {"save", "edit"}, pc: {"write"}, name: Name, key: StoredKey, set_active: BOOLEAN]
Setting == [kind: {"settings"}, pc: {"read", "write"}, name: Name \cup {Null}, key: StoredKey,
            set_active: {FALSE}]
Switching == [kind: {"switch"}, pc: {"write"}, name: Name]
Renaming == [kind: {"rename"}, pc: {"write"}, name: Name, new: Name]
Asked == Saving \cup Setting \cup Switching \cup Renaming

ProfilesTyped ==
  /\ profile \in [Name -> ProfileRow \cup {Null}]
  /\ home \in [Key -> Name \cup {Null}]
  /\ request \in [Handler -> Asked \cup {Null}]
  /\ \A h \in Handler : request[h] # Null /\ request[h].kind = "settings" /\ request[h].pc = "write" =>
       request[h].name \in Name

LEMMA ProfilesTypedIsTypeOK == ProfilesTyped => ProfilesTypeOK
<1> SUFFICES ASSUME ProfilesTyped PROVE ProfilesTypeOK
  OBVIOUS
<1>1. \A c \in Asked : /\ c.kind \in {"save", "edit", "settings", "switch", "rename"}
                       /\ c.pc \in {"read", "write"} /\ c.name \in Name \cup {Null}
  BY DEF Asked, Saving, Setting, Switching, Renaming
<1>2. \A h \in InFlight(request) : request[h] \in Asked
  BY DEF ProfilesTyped, InFlight, Idle
<1> QED BY <1>1, <1>2 DEF ProfilesTyped, ProfilesTypeOK, ProfileRow, StoredKey

LEMMA KindOfRequest ==
  ASSUME ProfilesTyped, NEW h \in Handler, request[h] # Null
  PROVE  /\ request[h].kind \in {"save", "edit"} => request[h] \in Saving
         /\ request[h].kind = "settings" => request[h] \in Setting
         /\ request[h].kind = "switch" => request[h] \in Switching
         /\ request[h].kind = "rename" => request[h] \in Renaming
         /\ request[h].pc = "read" => request[h].kind = "settings"
<1>1. request[h] \in Asked
  BY DEF ProfilesTyped
<1> QED BY <1>1 DEF Asked, Saving, Setting, Switching, Renaming

LEMMA ActiveName == Active # {} => get_active_profile \in Active
BY DEF get_active_profile

LEMMA KeyOfType ==
  ASSUME ProfilesTyped, NEW n \in Name \cup {Null}
  PROVE  KeyOf(n) \in StoredKey
BY DEF ProfilesTyped, KeyOf, Exists, ProfileRow, StoredKey

LEMMA DeactivatedType ==
  ASSUME ProfilesTyped
  PROVE  /\ Deactivated(profile) \in [Name -> ProfileRow \cup {Null}]
         /\ \A n \in Name : /\ Deactivated(profile)[n] = Null <=> profile[n] = Null
                            /\ profile[n] # Null => Deactivated(profile)[n].key = profile[n].key
<1> DEFINE d(n) == IF profile[n] = Null THEN Null ELSE [profile[n] EXCEPT !.is_active = FALSE]
<1>1. Deactivated(profile) = [n \in Name |-> d(n)]
  BY DEF Deactivated
<1>2. ASSUME NEW n \in Name
      PROVE  /\ d(n) \in ProfileRow \cup {Null} /\ (d(n) = Null <=> profile[n] = Null)
             /\ profile[n] # Null => d(n).key = profile[n].key
  <2>1. CASE profile[n] = Null
    BY <2>1
  <2>2. CASE profile[n] # Null
    <3>1. profile[n] \in ProfileRow
      BY <2>2 DEF ProfilesTyped
    <3>2. [profile[n] EXCEPT !.is_active = FALSE] \in ProfileRow
      BY <3>1 DEF ProfileRow
    <3>3. [profile[n] EXCEPT !.is_active = FALSE].key = profile[n].key
      BY <3>1 DEF ProfileRow
    <3>4. Null \notin ProfileRow
      BY ProfilesAssumption
    <3> QED BY <2>2, <3>2, <3>3, <3>4
  <2> QED BY <2>1, <2>2
<1> HIDE DEF d
<1> QED BY <1>1, <1>2

\* The row that upsert_profile writes, and the others.
LEMMA UpsertType ==
  ASSUME ProfilesTyped, NEW n \in Name, NEW k \in StoredKey, NEW b \in BOOLEAN
  PROVE  /\ upsert_profile(n, k, b) \in [Name -> ProfileRow \cup {Null}]
         /\ upsert_profile(n, k, b)[n] = [key |-> k, is_active |-> TRUE]
         /\ \A m \in Name \ {n} : /\ upsert_profile(n, k, b)[m] # Null <=> profile[m] # Null
                                  /\ profile[m] # Null => upsert_profile(n, k, b)[m].key = profile[m].key
         /\ ~b => \A m \in Name \ {n} : upsert_profile(n, k, b)[m] = profile[m]
<1> DEFINE t == IF b THEN Deactivated(profile) ELSE profile
           row == [key |-> k, is_active |-> TRUE]
<1>1. /\ t \in [Name -> ProfileRow \cup {Null}]
      /\ \A m \in Name : /\ t[m] = Null <=> profile[m] = Null
                         /\ profile[m] # Null => t[m].key = profile[m].key
      /\ ~b => t = profile
  BY DeactivatedType DEF ProfilesTyped
<1>2. row \in ProfileRow
  BY DEF ProfileRow, StoredKey
<1>3. upsert_profile(n, k, b) = [t EXCEPT ![n] = row]
  BY DEF upsert_profile
<1> HIDE DEF t, row
<1>4. /\ [t EXCEPT ![n] = row] \in [Name -> ProfileRow \cup {Null}]
      /\ [t EXCEPT ![n] = row][n] = row
      /\ \A m \in Name \ {n} : [t EXCEPT ![n] = row][m] = t[m]
  BY <1>1, <1>2
<1>5. row = [key |-> k, is_active |-> TRUE]
  BY DEF row
<1> QED BY <1>1, <1>3, <1>4, <1>5

\* A request that begins, goes on or is answered.
LEMMA RequestType ==
  ASSUME ProfilesTyped, NEW h \in Handler, NEW c \in Asked \cup {Null},
         c # Null /\ c.kind = "settings" /\ c.pc = "write" => c.name \in Name,
         request' = [request EXCEPT ![h] = c], UNCHANGED <<profile, home>>
  PROVE  ProfilesTyped'
<1>1. \A g \in Handler : request'[g] = IF g = h THEN c ELSE request[g]
  BY DEF ProfilesTyped
<1>2. request' \in [Handler -> Asked \cup {Null}]
  BY DEF ProfilesTyped
<1> QED BY <1>1, <1>2 DEF ProfilesTyped

\* An answer while the rows change.
LEMMA AnswerType ==
  ASSUME ProfilesTyped, NEW h \in Handler, request' = request \/ Answered(h),
         profile' \in [Name -> ProfileRow \cup {Null}], home' \in [Key -> Name \cup {Null}]
  PROVE  ProfilesTyped'
<1>1. \A g \in Handler : request'[g] = request[g] \/ request'[g] = Null
  BY DEF ProfilesTyped, Answered
<1>2. request' \in [Handler -> Asked \cup {Null}]
  BY DEF ProfilesTyped, Answered
<1> QED BY <1>1, <1>2 DEF ProfilesTyped

LEMMA ProfilesStepTyped ==
  ASSUME ProfilesTyped, [ProfilesNext]_profileVars
  PROVE  ProfilesTyped'
<1>1. ASSUME NEW n \in Name, NEW b \in BOOLEAN, NEW kind \in {"save", "edit"}, NEW k \in Key,
             SaveTyped(kind, n, k, b)
      PROVE  ProfilesTyped'
  <2>1. profile' \in [Name -> ProfileRow \cup {Null}]
    BY <1>1, UpsertType DEF SaveTyped, StoredKey
  <2> QED BY <1>1, <2>1 DEF SaveTyped, ProfilesTyped
<1>2. ASSUME NEW n \in Name, NEW b \in BOOLEAN, NEW kind \in {"save", "edit"}, SaveCleared(kind, n, b)
      PROVE  ProfilesTyped'
  <2>1. profile' \in [Name -> ProfileRow \cup {Null}]
    BY <1>2, UpsertType DEF SaveCleared, StoredKey
  <2> QED BY <1>2, <2>1 DEF SaveCleared, ProfilesTyped
<1>3. ASSUME NEW n \in Name, NEW b \in BOOLEAN, NEW kind \in {"save", "edit"}, NEW h \in Handler,
             SaveKept(h, kind, n, b)
      PROVE  ProfilesTyped'
  <2> DEFINE c == [kind |-> kind, pc |-> "write", name |-> n, key |-> KeyOf(n), set_active |-> b]
  <2>1. KeyOf(n) \in StoredKey
    BY KeyOfType
  <2>2. c \in Asked /\ c.kind # "settings"
    BY <2>1 DEF Asked, Saving
  <2>3. request' = [request EXCEPT ![h] = c] /\ UNCHANGED <<profile, home>>
    BY <1>3 DEF SaveKept, ReadAs
  <2> HIDE DEF c
  <2> QED BY <2>2, <2>3, RequestType
<1>4. ASSUME NEW h \in Handler, SettingsKept(h)
      PROVE  ProfilesTyped'
  <2> DEFINE c == [kind |-> "settings", pc |-> "read", name |-> Null,
                   key |-> KeyOf(get_active_profile), set_active |-> FALSE]
  <2>1. get_active_profile \in Name \cup {Null}
    BY ActiveName DEF get_active_profile, Active
  <2>2. KeyOf(get_active_profile) \in StoredKey
    BY <2>1, KeyOfType
  <2>3. c \in Asked /\ c.pc # "write"
    BY <2>2 DEF Asked, Setting
  <2>4. request' = [request EXCEPT ![h] = c] /\ UNCHANGED <<profile, home>>
    BY <1>4 DEF SettingsKept, ReadAs
  <2> HIDE DEF c
  <2> QED BY <2>3, <2>4, RequestType
<1>5. ASSUME NEW h \in Handler, NEW k \in Key, SettingsTyped(h, k)
      PROVE  ProfilesTyped'
  <2> DEFINE c == [kind |-> "settings", pc |-> "read", name |-> Null, key |-> k, set_active |-> FALSE]
  <2>1. c \in Asked /\ c.pc = "read"
    BY DEF Asked, Setting, StoredKey
  <2>2. /\ request' = [request EXCEPT ![h] = c] /\ UNCHANGED profile
        /\ home' = [home EXCEPT ![k] = get_active_profile] /\ get_active_profile \in Name
    BY <1>5, ActiveName DEF SettingsTyped, ReadAs, Active
  <2> HIDE DEF c
  <2>3. request' \in [Handler -> Asked \cup {Null}] /\ home' \in [Key -> Name \cup {Null}]
    BY <2>1, <2>2 DEF ProfilesTyped
  <2>4. \A g \in Handler : request'[g] = IF g = h THEN c ELSE request[g]
    BY <2>2 DEF ProfilesTyped
  <2> QED BY <2>1, <2>2, <2>3, <2>4 DEF ProfilesTyped
<1>6. ASSUME NEW h \in Handler, SettingsRead(h)
      PROVE  ProfilesTyped'
  <2>1. request[h] # Null /\ request[h] \in Setting /\ UNCHANGED <<profile, home>>
    BY <1>6, KindOfRequest DEF SettingsRead
  <2>2. CASE Active = {}
    BY <1>6, <2>1, <2>2, RequestType DEF SettingsRead
  <2>3. CASE Active # {}
    <3> DEFINE c == [request[h] EXCEPT !.pc = "write", !.name = get_active_profile]
    <3>1. get_active_profile \in Name
      BY <2>3, ActiveName DEF Active
    <3>2. c \in Asked /\ c.name \in Name
      BY <2>1, <3>1 DEF Asked, Setting
    <3>3. request' = [request EXCEPT ![h] = c]
      BY <1>6, <2>3 DEF SettingsRead
    <3> HIDE DEF c
    <3> QED BY <2>1, <3>2, <3>3, RequestType
  <2> QED BY <2>2, <2>3
<1>7. ASSUME NEW h \in Handler, WriteProfile(h)
      PROVE  ProfilesTyped'
  <2>1. request[h] # Null /\ request[h] \in Saving \cup Setting /\ request[h].pc = "write"
    BY <1>7, KindOfRequest DEF WriteProfile, ToWrite
  <2>2. /\ request[h].name \in Name /\ request[h].key \in StoredKey /\ request[h].set_active \in BOOLEAN
    BY <2>1 DEF Saving, Setting, ProfilesTyped
  <2>3. profile' \in [Name -> ProfileRow \cup {Null}]
    BY <1>7, <2>2, UpsertType DEF WriteProfile
  <2> QED BY <1>7, <2>3, AnswerType DEF WriteProfile, ProfilesTyped
<1>8. ASSUME NEW h \in Handler, NEW n \in Name, SwitchProfile(h, n)
      PROVE  ProfilesTyped'
  <2>1. [kind |-> "switch", pc |-> "write", name |-> n] \in Asked
    BY DEF Asked, Switching
  <2> QED BY <1>8, <2>1, RequestType DEF SwitchProfile, ReadAs
<1>9. ASSUME NEW h \in Handler, Activate(h)
      PROVE  ProfilesTyped'
  <2>1. request[h] # Null /\ request[h] \in Switching
    BY <1>9, KindOfRequest DEF Activate, ToWrite
  <2> DEFINE n == request[h].name
             d == Deactivated(profile)
  <2>2. n \in Name /\ d \in [Name -> ProfileRow \cup {Null}] /\ (Exists(n) => d[n] \in ProfileRow)
    BY <2>1, DeactivatedType DEF Switching, Exists
  <2>3. profile' = IF Exists(n) THEN [d EXCEPT ![n].is_active = TRUE] ELSE d
    BY <1>9 DEF Activate
  <2> HIDE DEF n, d
  <2>4. Exists(n) => [d[n] EXCEPT !.is_active = TRUE] \in ProfileRow
    BY <2>2 DEF ProfileRow
  <2>5. profile' \in [Name -> ProfileRow \cup {Null}]
    BY <2>2, <2>3, <2>4
  <2> QED BY <1>9, <2>5, AnswerType DEF Activate, ProfilesTyped
<1>10. ASSUME NEW h \in Handler, NEW old \in Name, NEW new \in Name, RenameProfile(h, old, new)
       PROVE  ProfilesTyped'
  <2>1. [kind |-> "rename", pc |-> "write", name |-> old, new |-> new] \in Asked
    BY DEF Asked, Renaming
  <2> QED BY <1>10, <2>1, RequestType DEF RenameProfile, ReadAs
<1>11. ASSUME NEW h \in Handler, MoveProfile(h)
       PROVE  ProfilesTyped'
  <2>1. request[h] # Null /\ request[h] \in Renaming
    BY <1>11, KindOfRequest DEF MoveProfile, ToWrite
  <2>2. request[h].name \in Name /\ request[h].new \in Name
    BY <2>1 DEF Renaming
  <2>3. profile' \in [Name -> ProfileRow \cup {Null}] /\ home' \in [Key -> Name \cup {Null}]
    BY <1>11, <2>2 DEF MoveProfile, ProfilesTyped
  <2> QED BY <1>11, <2>3, AnswerType DEF MoveProfile
<1>12. ASSUME NEW n \in Name, DeleteProfile(n)
       PROVE  ProfilesTyped'
  BY <1>12 DEF DeleteProfile, ProfilesTyped
<1>13. CASE UNCHANGED profileVars
  BY <1>13 DEF profileVars, ProfilesTyped
<1> QED BY <1>1, <1>2, <1>3, <1>4, <1>5, <1>6, <1>7, <1>8, <1>9, <1>10, <1>11, <1>12, <1>13
    DEF ProfilesNext

\* The rows and the requests keep their types.
THEOREM ProfilesTypeCorrect == ProfilesSpec => [](ProfilesTyped /\ ProfilesTypeOK)
<1>1. ProfilesInit => ProfilesTyped
  BY DEF ProfilesInit, ProfilesTyped
<1>2. ProfilesTyped /\ [ProfilesNext]_profileVars => ProfilesTyped'
  BY ProfilesStepTyped
<1>3. ProfilesTyped => ProfilesTypeOK
  BY ProfilesTypedIsTypeOK
<1> QED BY <1>1, <1>2, <1>3, PTL DEF ProfilesSpec
--------------------------------------------------------------------------------
\* Requests of some kinds do not overlap with requests of others.
KeepApart(kinds, others) == kinds \X others \subseteq ProfilesApart /\ others \X kinds \subseteq ProfilesApart

TakeTurns ==
  /\ KeepApart({"rename"}, {"save", "edit"})
  /\ KeepApart({"settings"}, {"save", "edit", "switch", "rename", "delete"})

Asks(h, kinds) == request[h] # Null /\ request[h].kind \in kinds

Alone ==
  \A g, h \in Handler :
    /\ ~(Asks(g, {"rename"}) /\ Asks(h, {"save", "edit"}))
    /\ ~(Asks(g, {"settings"}) /\ Asks(h, {"save", "edit", "switch", "rename"}))

\* The key that a request carries is at home where the request is to write it.
Carried(c) ==
  /\ c.kind \in {"save", "edit"} /\ c.key # NoKey => home[c.key] = c.name
  /\ c.kind = "settings" =>
       /\ c.key # NoKey => Active # {} /\ home[c.key] = get_active_profile
       /\ c.pc = "write" => Active # {} /\ c.name = get_active_profile

AllCarried == \A h \in Handler : request[h] # Null => Carried(request[h])

AtHome == KeysStayHome /\ AllCarried /\ Alone

\* A step goes on with one request, or begins one that may begin.
LEMMA RequestKinds ==
  ASSUME ProfilesTyped, [ProfilesNext]_profileVars
  PROVE  \/ \A h \in Handler : request'[h] # Null => request[h] # Null /\ request'[h].kind = request[h].kind
         \/ \E h \in Handler, kind \in {"save", "edit", "settings", "switch", "rename"} :
              /\ May(kind) /\ request'[h].kind = kind
              /\ \A g \in Handler \ {h} : request'[g] = request[g]
<1> DEFINE Kept == \A h \in Handler :
                     request'[h] # Null => request[h] # Null /\ request'[h].kind = request[h].kind
           Begun(h, kind) == /\ May(kind) /\ request'[h].kind = kind
                             /\ \A g \in Handler \ {h} : request'[g] = request[g]
<1>1. ASSUME NEW h \in Handler, Answered(h)
      PROVE  Kept
  BY <1>1 DEF Answered, ProfilesTyped
<1>2. ASSUME NEW h \in Handler, NEW c, ReadAs(h, c), May(c.kind)
      PROVE  Begun(h, c.kind)
  BY <1>2 DEF ReadAs, ProfilesTyped
<1>3. ASSUME NEW h \in Handler, SettingsRead(h)
      PROVE  Kept
  <2>1. request[h] # Null /\ request[h] \in Setting
    BY <1>3, KindOfRequest DEF SettingsRead
  <2>2. CASE Active = {}
    BY <1>1, <1>3, <2>2 DEF SettingsRead, Answered
  <2>3. CASE Active # {}
    <3>1. [request[h] EXCEPT !.pc = "write", !.name = get_active_profile].kind = request[h].kind
      BY <2>1 DEF Setting
    <3>2. request' = [request EXCEPT ![h] =
                        [request[h] EXCEPT !.pc = "write", !.name = get_active_profile]]
      BY <1>3, <2>3 DEF SettingsRead
    <3> QED BY <2>1, <3>1, <3>2 DEF ProfilesTyped
  <2> QED BY <2>2, <2>3
<1>4. ASSUME NEW n \in Name, NEW b \in BOOLEAN, NEW kind \in {"save", "edit"}, NEW h \in Handler,
             SaveKept(h, kind, n, b)
      PROVE  Begun(h, kind)
  BY <1>2, <1>4 DEF SaveKept
<1>5. ASSUME NEW h \in Handler, SettingsKept(h) \/ \E k \in Key : SettingsTyped(h, k)
      PROVE  Begun(h, "settings")
  <2>1. PICK k : ReadAs(h, [kind |-> "settings", pc |-> "read", name |-> Null, key |-> k,
                            set_active |-> FALSE]) /\ May("settings")
    BY <1>5 DEF SettingsKept, SettingsTyped
  <2> QED BY <1>2, <2>1
<1>6. ASSUME NEW h \in Handler, NEW n \in Name, SwitchProfile(h, n)
      PROVE  Begun(h, "switch")
  BY <1>2, <1>6 DEF SwitchProfile
<1>7. ASSUME NEW h \in Handler, NEW old \in Name, NEW new \in Name, RenameProfile(h, old, new)
      PROVE  Begun(h, "rename")
  BY <1>2, <1>7 DEF RenameProfile
<1>8. ASSUME NEW h \in Handler, WriteProfile(h) \/ Activate(h) \/ MoveProfile(h)
      PROVE  Kept
  BY <1>1, <1>8 DEF WriteProfile, Activate, MoveProfile
<1>9. ASSUME \/ \E n \in Name, b \in BOOLEAN, kind \in {"save", "edit"} :
                  SaveCleared(kind, n, b) \/ \E k \in Key : SaveTyped(kind, n, k, b)
             \/ \E n \in Name : DeleteProfile(n)
             \/ UNCHANGED profileVars
      PROVE  Kept
  BY <1>9 DEF SaveCleared, SaveTyped, DeleteProfile, profileVars
<1> HIDE DEF Kept, Begun
<1>10. \/ Kept
       \/ \E h \in Handler, kind \in {"save", "edit", "settings", "switch", "rename"} : Begun(h, kind)
  BY <1>3, <1>4, <1>5, <1>6, <1>7, <1>8, <1>9 DEF ProfilesNext
<1> QED BY <1>10 DEF Kept, Begun

LEMMA StepAlone ==
  ASSUME TakeTurns, ProfilesTyped, Alone, [ProfilesNext]_profileVars
  PROVE  Alone'
<1>1. CASE \A h \in Handler : request'[h] # Null => request[h] # Null /\ request'[h].kind = request[h].kind
  BY <1>1 DEF Alone, Asks
<1>2. ASSUME NEW h \in Handler, NEW kind \in {"save", "edit", "settings", "switch", "rename"},
             May(kind), request'[h].kind = kind, \A g \in Handler \ {h} : request'[g] = request[g]
      PROVE  Alone'
  <2>1. \A g \in Handler : request[g] # Null => <<kind, request[g].kind>> \notin ProfilesApart
    BY <1>2 DEF May, MayBegin, InFlight, Idle
  <2>2. /\ kind = "rename" => \A g \in Handler : ~Asks(g, {"save", "edit"})
        /\ kind \in {"save", "edit"} => \A g \in Handler : ~Asks(g, {"rename"})
        /\ kind = "settings" => \A g \in Handler : ~Asks(g, {"save", "edit", "switch", "rename"})
        /\ kind # "settings" => \A g \in Handler : ~Asks(g, {"settings"})
    BY <2>1 DEF TakeTurns, KeepApart, Asks
  <2>3. \A g \in Handler : \A kinds : Asks(g, kinds)' => IF g = h THEN kind \in kinds ELSE Asks(g, kinds)
    BY <1>2 DEF Asks
  <2> QED BY <2>2, <2>3 DEF Alone
<1> QED BY <1>1, <1>2, RequestKinds

\* A request that begins, goes on or is answered while the rows stay as they are.
LEMMA OnlyRequestChanges ==
  ASSUME ProfilesTyped, KeysStayHome, AllCarried, UNCHANGED <<profile, home>>,
         NEW h \in Handler, NEW c, request' = [request EXCEPT ![h] = c], c = Null \/ Carried(c)
  PROVE  KeysStayHome' /\ AllCarried'
<1>1. KeysStayHome'
  BY DEF KeysStayHome, Exists
<1>2. ASSUME NEW g \in Handler, request'[g] # Null
      PROVE  Carried(request'[g])
  BY <1>2 DEF AllCarried, ProfilesTyped
<1>3. Active' = Active /\ get_active_profile' = get_active_profile
  BY DEF Active, get_active_profile, Exists
<1>4. ASSUME NEW g \in Handler, request'[g] # Null
      PROVE  Carried(request[g])'
  BY <1>2, <1>3, <1>4 DEF Carried
<1> QED BY <1>1, <1>4 DEF AllCarried

\* Rows that change, with a request that is answered or with none: what the requests in
\* flight carry must stay at home.
LEMMA OnlyProfilesChange ==
  ASSUME ProfilesTyped, AllCarried,
         UNCHANGED request \/ \E h \in Handler : Answered(h),
         \A g \in Handler :
           request[g] # Null /\ request'[g] = request[g] /\ Carried(request[g]) => Carried(request[g])'
  PROVE  AllCarried'
<1>1. ASSUME NEW g \in Handler, request'[g] # Null
      PROVE  request[g] # Null /\ request'[g] = request[g]
  BY <1>1 DEF ProfilesTyped, Answered
<1> QED BY <1>1 DEF AllCarried

\* A new row with a key that is at home there.
LEMMA UpsertAtHome ==
  ASSUME ProfilesTyped, KeysStayHome, NEW n \in Name, NEW k \in StoredKey, NEW b \in BOOLEAN,
         profile' = upsert_profile(n, k, b), k # NoKey => home'[k] = n,
         \A j \in Key : home[j] # Null => home'[j] = home[j]
  PROVE  KeysStayHome'
<1> SUFFICES ASSUME NEW m \in Name, profile'[m] # Null, profile'[m].key # NoKey
             PROVE  home'[profile'[m].key] = m
  BY DEF KeysStayHome, Exists
<1>0. /\ profile'[n] = [key |-> k, is_active |-> TRUE]
      /\ \A j \in Name \ {n} : /\ profile'[j] # Null <=> profile[j] # Null
                               /\ profile[j] # Null => profile'[j].key = profile[j].key
  <2>1. /\ upsert_profile(n, k, b)[n] = [key |-> k, is_active |-> TRUE]
        /\ \A j \in Name \ {n} :
             /\ upsert_profile(n, k, b)[j] # Null <=> profile[j] # Null
             /\ profile[j] # Null => upsert_profile(n, k, b)[j].key = profile[j].key
    BY UpsertType, SMT
  <2> QED BY <2>1, Zenon
<1>1. CASE m = n
  BY <1>0, <1>1
<1>2. CASE m # n
  <2>1. profile[m] # Null /\ profile'[m].key = profile[m].key
    BY <1>0, <1>2
  <2>2. home[profile[m].key] = m /\ profile[m].key \in Key
    BY <2>1 DEF KeysStayHome, Exists, ProfilesTyped, ProfileRow
  <2> QED BY <2>1, <2>2, ProfilesAssumption
<1> QED BY <1>1, <1>2

\* While settings are being saved nothing else writes profiles.
LEMMA NoSettings ==
  ASSUME TakeTurns, ProfilesTyped, NEW kind \in {"save", "edit", "switch", "rename", "delete"}, May(kind)
  PROVE  \A g \in Handler : ~Asks(g, {"settings"})
BY DEF TakeTurns, KeepApart, May, MayBegin, InFlight, Idle, Asks

LEMMA StepAtHome ==
  ASSUME TakeTurns, ProfilesTyped, AtHome, [ProfilesNext]_profileVars
  PROVE  AtHome'
<1> SUFFICES KeysStayHome' /\ AllCarried'
  BY StepAlone DEF AtHome
<1>a. KeysStayHome /\ AllCarried /\ Alone
  BY DEF AtHome
<1>b. Null \notin Name /\ NoKey \notin Key
  BY ProfilesAssumption
<1>c. ASSUME NEW g \in Handler, request[g] # Null, Carried(request[g]),
             ~Asks(g, {"settings"}), request'[g] = request[g],
             \A j \in Key : home[j] # Null => home'[j] = home[j]
      PROVE  Carried(request[g])'
  <2>1. request[g].kind \in {"save", "edit"} =>
          request[g].name \in Name /\ request[g].key \in StoredKey
    BY <1>c, KindOfRequest DEF Saving
  <2> QED BY <1>b, <1>c, <2>1 DEF Carried, Asks, StoredKey
<1>1. ASSUME NEW n \in Name, NEW b \in BOOLEAN, NEW kind \in {"save", "edit"}, NEW k \in Key,
             SaveTyped(kind, n, k, b)
      PROVE  KeysStayHome' /\ AllCarried'
  <2>1. /\ profile' = upsert_profile(n, k, b) /\ home'[k] = n /\ UNCHANGED request /\ k \in StoredKey
        /\ \A j \in Key : home[j] # Null => home'[j] = home[j]
    BY <1>1 DEF SaveTyped, Fresh, ProfilesTyped, StoredKey
  <2>2. KeysStayHome'
    BY <1>a, <2>1, UpsertAtHome
  <2>3. \A g \in Handler : ~Asks(g, {"settings"})
    BY <1>1, NoSettings DEF SaveTyped
  <2> QED BY <1>a, <1>c, <2>1, <2>2, <2>3, OnlyProfilesChange
<1>2. ASSUME NEW n \in Name, NEW b \in BOOLEAN, NEW kind \in {"save", "edit"}, SaveCleared(kind, n, b)
      PROVE  KeysStayHome' /\ AllCarried'
  <2>1. /\ profile' = upsert_profile(n, NoKey, b) /\ UNCHANGED <<request, home>> /\ NoKey \in StoredKey
    BY <1>2 DEF SaveCleared, StoredKey
  <2>2. KeysStayHome'
    BY <1>a, <2>1, UpsertAtHome
  <2>3. \A g \in Handler : ~Asks(g, {"settings"})
    BY <1>2, NoSettings DEF SaveCleared
  <2> QED BY <1>a, <1>c, <2>1, <2>2, <2>3, OnlyProfilesChange
<1>3. ASSUME NEW n \in Name, NEW b \in BOOLEAN, NEW kind \in {"save", "edit"}, NEW h \in Handler,
             SaveKept(h, kind, n, b)
      PROVE  KeysStayHome' /\ AllCarried'
  <2> DEFINE c == [kind |-> kind, pc |-> "write", name |-> n, key |-> KeyOf(n), set_active |-> b]
  <2>1. KeyOf(n) # NoKey => home[KeyOf(n)] = n
    BY <1>a DEF KeyOf, KeysStayHome
  <2>2. Carried(c)
    BY <2>1 DEF Carried
  <2>3. request' = [request EXCEPT ![h] = c] /\ UNCHANGED <<profile, home>>
    BY <1>3 DEF SaveKept, ReadAs
  <2> HIDE DEF c
  <2> QED BY <1>a, <2>2, <2>3, OnlyRequestChanges
<1>4. ASSUME NEW h \in Handler, SettingsKept(h)
      PROVE  KeysStayHome' /\ AllCarried'
  <2> DEFINE k == KeyOf(get_active_profile)
             c == [kind |-> "settings", pc |-> "read", name |-> Null, key |-> k, set_active |-> FALSE]
  <2>1. k # NoKey => Active # {} /\ home[k] = get_active_profile
    <3>1. CASE Active = {}
      BY <3>1 DEF KeyOf, get_active_profile
    <3>2. CASE Active # {}
      BY <1>a, <3>2, ActiveName DEF KeyOf, KeysStayHome, Active
    <3> QED BY <3>1, <3>2
  <2> HIDE DEF k
  <2>2. Carried(c)
    BY <2>1 DEF Carried
  <2>3. request' = [request EXCEPT ![h] = c] /\ UNCHANGED <<profile, home>>
    BY <1>4 DEF SettingsKept, ReadAs, k
  <2> HIDE DEF c
  <2> QED BY <1>a, <2>2, <2>3, OnlyRequestChanges
<1>5. ASSUME NEW h \in Handler, NEW k \in Key, SettingsTyped(h, k)
      PROVE  KeysStayHome' /\ AllCarried'
  <2> DEFINE c == [kind |-> "settings", pc |-> "read", name |-> Null, key |-> k, set_active |-> FALSE]
  <2>1. /\ request' = [request EXCEPT ![h] = c] /\ UNCHANGED profile /\ Active # {}
        /\ home'[k] = get_active_profile /\ \A j \in Key : home[j] # Null => home'[j] = home[j]
    BY <1>5 DEF SettingsTyped, ReadAs, Fresh, ProfilesTyped
  <2>2. KeysStayHome'
    <3>1. \A n \in Name : Exists(n) /\ profile[n].key # NoKey => profile[n].key \in Key
      BY DEF Exists, ProfilesTyped, ProfileRow
    <3> QED BY <1>a, <1>b, <2>1, <3>1 DEF KeysStayHome, Exists
  <2>3. Active' = Active /\ get_active_profile' = get_active_profile /\ get_active_profile \in Name
    BY <2>1, ActiveName DEF Active, get_active_profile, Exists
  <2>4. ASSUME NEW g \in Handler, request'[g] # Null
        PROVE  Carried(request[g])'
    <3>1. CASE g = h
      <4>1. request'[g] = c
        BY <2>1, <3>1 DEF ProfilesTyped
      <4> QED BY <2>1, <2>3, <4>1 DEF Carried
    <3>2. CASE g # h
      <4>1. request'[g] = request[g] /\ request[g] # Null /\ Carried(request[g])
        BY <1>a, <2>1, <2>4, <3>2 DEF ProfilesTyped, AllCarried
      <4>2. CASE ~Asks(g, {"settings"})
        BY <1>c, <2>1, <4>1, <4>2
      <4>3. CASE Asks(g, {"settings"})
        <5>1. request[g].kind = "settings" /\ request[g].key \in StoredKey
          BY <4>1, <4>3, KindOfRequest DEF Asks, Setting
        <5>2. request[g].key # NoKey => home'[request[g].key] = get_active_profile
          BY <1>b, <2>1, <2>3, <4>1, <5>1 DEF Carried, StoredKey
        <5> QED BY <2>1, <2>3, <4>1, <5>1, <5>2 DEF Carried
      <4> QED BY <4>2, <4>3
    <3> QED BY <3>1, <3>2
  <2> QED BY <2>2, <2>4 DEF AllCarried
<1>6. ASSUME NEW h \in Handler, SettingsRead(h)
      PROVE  KeysStayHome' /\ AllCarried'
  <2>1. request[h] # Null /\ request[h] \in Setting /\ UNCHANGED <<profile, home>> /\ Carried(request[h])
    BY <1>6, <1>a, KindOfRequest DEF SettingsRead, AllCarried
  <2>2. CASE Active = {}
    BY <1>6, <1>a, <2>1, <2>2, OnlyRequestChanges DEF SettingsRead
  <2>3. CASE Active # {}
    <3> DEFINE c == [request[h] EXCEPT !.pc = "write", !.name = get_active_profile]
    <3>1. c.kind = "settings" /\ request[h].kind = "settings" /\ c.key = request[h].key
          /\ c.name = get_active_profile
      BY <2>1 DEF Setting
    <3>2. request' = [request EXCEPT ![h] = c]
      BY <1>6, <2>3 DEF SettingsRead
    <3> HIDE DEF c
    <3>3. Carried(c)
      BY <2>1, <2>3, <3>1 DEF Carried
    <3> QED BY <1>a, <2>1, <3>2, <3>3, OnlyRequestChanges
  <2> QED BY <2>2, <2>3
<1>7. ASSUME NEW h \in Handler, WriteProfile(h)
      PROVE  KeysStayHome' /\ AllCarried'
  <2>1. /\ request[h] # Null /\ request[h] \in Saving \cup Setting /\ request[h].pc = "write"
        /\ Carried(request[h]) /\ Answered(h) /\ UNCHANGED home
    BY <1>7, <1>a, KindOfRequest DEF WriteProfile, ToWrite, AllCarried
  <2>2. PICK n \in Name, k \in StoredKey, b \in BOOLEAN :
          n = request[h].name /\ k = request[h].key /\ b = request[h].set_active
    BY <2>1 DEF Saving, Setting, ProfilesTyped
  <2>3. profile' = upsert_profile(n, k, b)
    BY <1>7, <2>2 DEF WriteProfile
  <2>4. k # NoKey => home[k] = n
    BY <2>1, <2>2 DEF Carried, Saving, Setting
  <2>5. KeysStayHome'
    BY <1>a, <2>1, <2>3, <2>4, UpsertAtHome
  <2>6. CASE request[h].kind \in {"save", "edit"}
    <3>1. \A g \in Handler : ~Asks(g, {"settings"})
      BY <1>a, <2>1, <2>6 DEF Alone, Asks
    <3> QED BY <1>a, <1>c, <2>1, <2>5, <3>1, OnlyProfilesChange
  <2>7. CASE request[h].kind = "settings"
    <3>1. n \in Active /\ b = FALSE
      BY <2>1, <2>2, <2>7, ActiveName DEF Carried, Saving, Setting
    <3>2. profile'[n] = [key |-> k, is_active |-> TRUE] /\ \A m \in Name \ {n} : profile'[m] = profile[m]
      <4>1. upsert_profile(n, k, FALSE)[n] = [key |-> k, is_active |-> TRUE]
            /\ \A m \in Name \ {n} : upsert_profile(n, k, FALSE)[m] = profile[m]
        BY UpsertType
      <4> QED BY <2>3, <3>1, <4>1
    <3>3. [key |-> k, is_active |-> TRUE] \in ProfileRow
      BY DEF ProfileRow, StoredKey
    <3>4. Active' = Active
      BY <3>1, <3>2, <3>3, ProfilesAssumption DEF Active, Exists
    <3>5. get_active_profile' = get_active_profile
      BY <3>4 DEF get_active_profile
    <3>6. ASSUME NEW g \in Handler, request[g] # Null, request'[g] = request[g], Carried(request[g])
          PROVE  Carried(request[g])'
      BY <2>1, <3>4, <3>5, <3>6 DEF Carried
    <3> QED BY <1>a, <2>1, <2>5, <3>6, OnlyProfilesChange
  <2> QED BY <2>1, <2>6, <2>7 DEF Saving, Setting
<1>8. ASSUME NEW h \in Handler, NEW n \in Name, SwitchProfile(h, n)
      PROVE  KeysStayHome' /\ AllCarried'
  <2>1. Carried([kind |-> "switch", pc |-> "write", name |-> n])
    BY DEF Carried
  <2> QED BY <1>8, <1>a, <2>1, OnlyRequestChanges DEF SwitchProfile, ReadAs
<1>9. ASSUME NEW h \in Handler, Activate(h)
      PROVE  KeysStayHome' /\ AllCarried'
  <2>1. /\ request[h] # Null /\ request[h] \in Switching /\ request[h].kind = "switch"
        /\ Answered(h) /\ UNCHANGED home
    BY <1>9, KindOfRequest DEF Activate, ToWrite
  <2> DEFINE n == request[h].name
             d == Deactivated(profile)
  <2>2. /\ n \in Name /\ d \in [Name -> ProfileRow \cup {Null}]
        /\ \A m \in Name : /\ d[m] = Null <=> profile[m] = Null
                           /\ profile[m] # Null => d[m].key = profile[m].key
    BY <2>1, DeactivatedType DEF Switching
  <2>3. profile' = IF Exists(n) THEN [d EXCEPT ![n].is_active = TRUE] ELSE d
    BY <1>9 DEF Activate
  <2> HIDE DEF n, d
  <2>4. \A m \in Name : profile'[m] # Null => profile[m] # Null /\ profile'[m].key = profile[m].key
    <3> SUFFICES ASSUME NEW m \in Name, profile'[m] # Null
                 PROVE  profile[m] # Null /\ profile'[m].key = profile[m].key
      OBVIOUS
    <3>1. CASE Exists(n) /\ m = n
      <4>1. d[n] \in ProfileRow /\ profile'[n] = [d[n] EXCEPT !.is_active = TRUE]
        BY <2>2, <2>3, <3>1 DEF Exists
      <4>2. profile'[n].key = d[n].key
        BY <4>1 DEF ProfileRow
      <4> QED BY <2>2, <3>1, <4>2 DEF Exists
    <3>2. CASE ~(Exists(n) /\ m = n)
      <4>1. profile'[m] = d[m]
        BY <2>2, <2>3, <3>2
      <4> QED BY <2>2, <4>1
    <3> QED BY <3>1, <3>2
  <2>5. KeysStayHome'
    BY <1>a, <2>1, <2>4 DEF KeysStayHome, Exists
  <2>6. \A g \in Handler : ~Asks(g, {"settings"})
    BY <1>a, <2>1 DEF Alone, Asks
  <2> QED BY <1>a, <1>c, <2>1, <2>5, <2>6, OnlyProfilesChange
<1>10. ASSUME NEW h \in Handler, NEW old \in Name, NEW new \in Name, RenameProfile(h, old, new)
       PROVE  KeysStayHome' /\ AllCarried'
  <2>1. Carried([kind |-> "rename", pc |-> "write", name |-> old, new |-> new])
    BY DEF Carried
  <2> QED BY <1>10, <1>a, <2>1, OnlyRequestChanges DEF RenameProfile, ReadAs
<1>11. ASSUME NEW h \in Handler, MoveProfile(h)
       PROVE  KeysStayHome' /\ AllCarried'
  <2>1. request[h] # Null /\ request[h] \in Renaming /\ request[h].kind = "rename" /\ Answered(h)
    BY <1>11, KindOfRequest DEF MoveProfile, ToWrite
  <2>2. PICK old \in Name, new \in Name : old = request[h].name /\ new = request[h].new
    BY <2>1 DEF Renaming
  <2>3. ASSUME NEW g \in Handler, request[g] # Null, request'[g] = request[g], Carried(request[g])
        PROVE  Carried(request[g])'
    <3>1. request[g].kind \notin {"save", "edit", "settings"}
      BY <1>a, <2>1, <2>3 DEF Alone, Asks
    <3> QED BY <2>3, <3>1 DEF Carried
  <2>4. KeysStayHome'
    <3>1. CASE Exists(old) /\ ~Exists(new)
      <4>1. /\ profile' = [profile EXCEPT ![new] = profile[old], ![old] = Null]
            /\ home' = [k \in Key |-> IF home[k] = old THEN new ELSE home[k]] /\ old # new
        BY <1>11, <2>2, <3>1 DEF MoveProfile
      <4>2. profile'[old] = Null /\ profile'[new] = profile[old]
            /\ \A m \in Name \ {old, new} : profile'[m] = profile[m]
        BY <4>1 DEF ProfilesTyped
      <4>3. ASSUME NEW m \in Name, profile'[m] # Null, profile'[m].key # NoKey
            PROVE  home'[profile'[m].key] = m
        <5>1. CASE m = new
          <6>1. home[profile[old].key] = old /\ profile[old].key \in Key
            BY <1>a, <3>1, <4>2, <4>3, <5>1 DEF KeysStayHome, ProfilesTyped, ProfileRow, Exists
          <6> QED BY <4>1, <4>2, <5>1, <6>1
        <5>2. CASE m # new
          <6>1. m # old /\ profile'[m] = profile[m]
            BY <4>2, <4>3, <5>2
          <6>2. home[profile[m].key] = m /\ profile[m].key \in Key
            BY <1>a, <4>3, <6>1 DEF KeysStayHome, ProfilesTyped, ProfileRow, Exists
          <6> QED BY <4>1, <6>1, <6>2
        <5> QED BY <5>1, <5>2
      <4> QED BY <4>3 DEF KeysStayHome, Exists
    <3>2. CASE ~(Exists(old) /\ ~Exists(new))
      BY <1>11, <1>a, <2>2, <3>2 DEF MoveProfile, KeysStayHome, Exists
    <3> QED BY <3>1, <3>2
  <2> QED BY <1>a, <2>1, <2>3, <2>4, OnlyProfilesChange
<1>12. ASSUME NEW n \in Name, DeleteProfile(n)
       PROVE  KeysStayHome' /\ AllCarried'
  <2>1. UNCHANGED <<request, home>> /\ \A m \in Name : profile'[m] = IF m = n THEN Null ELSE profile[m]
    BY <1>12 DEF DeleteProfile, ProfilesTyped
  <2>2. KeysStayHome'
    BY <1>a, <2>1 DEF KeysStayHome, Exists
  <2>3. \A g \in Handler : ~Asks(g, {"settings"})
    BY <1>12, NoSettings DEF DeleteProfile
  <2> QED BY <1>a, <1>c, <2>1, <2>2, <2>3, OnlyProfilesChange
<1>13. CASE UNCHANGED profileVars
  <2>1. Active' = Active /\ get_active_profile' = get_active_profile
    BY <1>13 DEF profileVars, Active, get_active_profile, Exists
  <2> QED BY <1>13, <1>a, <2>1 DEF profileVars, KeysStayHome, Exists, AllCarried, Carried
<1> QED BY <1>1, <1>2, <1>3, <1>4, <1>5, <1>6, <1>7, <1>8, <1>9, <1>10, <1>11, <1>12, <1>13
    DEF ProfilesNext

\* If no rename overlaps with a save and nothing with the saving of settings, the key that
\* was typed for one site is never stored for another (KeysStayHome).
THEOREM KeysAlwaysStayHome == TakeTurns => (ProfilesSpec => []KeysStayHome)
<1> SUFFICES ASSUME TakeTurns PROVE ProfilesSpec => []KeysStayHome
  OBVIOUS
<1>1. ProfilesInit => AtHome
  BY DEF ProfilesInit, AtHome, KeysStayHome, Exists, AllCarried, Alone, Asks
<1>2. ProfilesTyped /\ AtHome /\ [ProfilesNext]_profileVars => AtHome'
  BY StepAtHome
<1>3. AtHome => KeysStayHome
  BY DEF AtHome
<1> QED BY <1>1, <1>2, <1>3, ProfilesTypeCorrect, PTL DEF ProfilesSpec
-------------------------------------------------------------------------------
(***************************************************************************)
(* Accounts: how admins are lost, that schedules refer to notifiers that   *)
(* are there, and that the limit on schedules is exceeded by no more than  *)
(* the requests that overlap, for any number of users, rows and requests.  *)
(***************************************************************************)
NotifierId == Notifier \cup {NoNotifier}

\* The requests in flight, by kind.
Creating == [kind: {"create"}, pc: {"count", "notifier", "write"}, user: User, notifier: NotifierId]
Editing == [kind: {"update"}, pc: {"notifier", "write"}, user: User, notifier: NotifierId,
            schedule: Schedule]
Deleting == [kind: {"delete"}, pc: {"write"}, user: User, notifier: NotifierId, schedule: Schedule]
Unbinding == [kind: {"unbind"}, pc: {"count", "write"}, user: User, notifier: Notifier]
Administering == [kind: {"role", "remove"}, pc: {"write"}, user: User, target: User,
                  to: {"user", "admin"}]
Call == Creating \cup Editing \cup Deleting \cup Unbinding \cup Administering

ScheduleRow == [owner: User, alert_notifier_id: NotifierId]

Typed ==
  /\ role \in [User -> {"new", "user", "admin", "gone"}]
  /\ schedule \in [Schedule -> ScheduleRow \cup {Null}]
  /\ notifier \in [Notifier -> User \cup {Null}]
  /\ used \subseteq Schedule \cup Notifier
  /\ call \in [Handler -> Call \cup {Null}]
  /\ outranked \in BOOLEAN

LEMMA TypedIsTypeOK == Typed => AccountsTypeOK
<1> SUFFICES ASSUME Typed PROVE AccountsTypeOK
  OBVIOUS
<1>1. \A c \in Call : c.user \in User /\ c.pc \in {"count", "notifier", "write"}
  BY DEF Call, Creating, Editing, Deleting, Unbinding, Administering
<1>2. \A h \in InFlight(call) : call[h] \in Call
  BY DEF Typed, InFlight, Idle
<1>3. schedule \in [Schedule ->
        [owner: User, alert_notifier_id: Notifier \cup {NoNotifier}] \cup {Null}]
  BY DEF Typed, ScheduleRow, NotifierId
<1> QED BY <1>1, <1>2, <1>3 DEF Typed, AccountsTypeOK

LEMMA InitTyped == AccountsInit => Typed
BY DEF AccountsInit, Typed

\* What a request in flight is, where it goes on.
LEMMA KindOfCall ==
  ASSUME Typed, NEW h \in Handler, call[h] # Null
  PROVE  /\ call[h].kind = "create" => call[h] \in Creating
         /\ call[h].kind = "update" => call[h] \in Editing
         /\ call[h].kind = "delete" => call[h] \in Deleting
         /\ call[h].kind = "unbind" => call[h] \in Unbinding
         /\ call[h].kind \in {"role", "remove"} => call[h] \in Administering
<1>1. call[h] \in Call
  BY DEF Typed
<1> QED BY <1>1 DEF Call, Creating, Editing, Deleting, Unbinding, Administering

LEMMA CallType ==
  ASSUME Typed, NEW h \in Handler
  PROVE  /\ Reply(h) => call' \in [Handler -> Call \cup {Null}]
         /\ \A c \in Call : Begin(h, c) => call' \in [Handler -> Call \cup {Null}]
BY DEF Typed, Reply, Begin

LEMMA StepTyped ==
  ASSUME Typed, [AccountsNext]_accountVars
  PROVE  Typed'
<1>1. ASSUME NEW h \in Handler, NEW u \in User, NEW n \in Notifier \cup {NoNotifier}, CreateSchedule(h, u, n)
      PROVE  Typed'
  <2>1. [kind |-> "create", pc |-> "count", user |-> u, notifier |-> n] \in Call
    BY DEF Call, Creating, NotifierId
  <2> QED BY <1>1, <2>1, CallType DEF CreateSchedule, Request, Typed
<1>2. ASSUME NEW h \in Handler, NEW u \in User, NEW n \in Notifier \cup {NoNotifier},
             NEW s \in Schedule, NEW kind \in {"update", "delete"}, EditSchedule(h, u, kind, s, n)
      PROVE  Typed'
  <2>1. [kind |-> kind, pc |-> IF kind = "update" THEN "notifier" ELSE "write",
         user |-> u, notifier |-> n, schedule |-> s] \in Call
    BY DEF Call, Editing, Deleting, NotifierId
  <2> QED BY <1>2, <2>1, CallType DEF EditSchedule, Request, Typed
<1>3. ASSUME NEW h \in Handler, NEW u \in User, NEW n \in Notifier, DeleteNotifier(h, u, n)
      PROVE  Typed'
  <2>1. [kind |-> "unbind", pc |-> "count", user |-> u, notifier |-> n] \in Call
    BY DEF Call, Unbinding
  <2> QED BY <1>3, <2>1, CallType DEF DeleteNotifier, Request, Typed
<1>4. ASSUME NEW h \in Handler, NEW u \in User, NEW target \in User, NEW kind \in {"role", "remove"},
             NEW to \in {"user", "admin"}, Administer(h, u, kind, target, to)
      PROVE  Typed'
  <2>1. [kind |-> kind, pc |-> "write", user |-> u, target |-> target, to |-> to] \in Call
    BY DEF Call, Administering
  <2> QED BY <1>4, <2>1, CallType DEF Administer, Request, Typed
<1>5. ASSUME NEW h \in Handler, CountSchedules(h)
      PROVE  Typed'
  <2>1. call[h] # Null /\ call[h] \in Creating
    BY <1>5, KindOfCall DEF CountSchedules, At
  <2>2. [call[h] EXCEPT !.pc = "notifier"] \in Call
    BY <2>1 DEF Call, Creating
  <2> QED BY <1>5, <2>2, CallType DEF CountSchedules, GoOn, Typed
<1>6. ASSUME NEW h \in Handler, CheckNotifier(h)
      PROVE  Typed'
  <2>1. call[h] # Null /\ call[h] \in Creating \cup Editing
    BY <1>6, KindOfCall DEF CheckNotifier, At
  <2>2. [call[h] EXCEPT !.pc = "write"] \in Call
    BY <2>1 DEF Call, Creating, Editing
  <2> QED BY <1>6, <2>2, CallType DEF CheckNotifier, GoOn, Typed
<1>7. ASSUME NEW h \in Handler, NEW s \in Schedule, InsertSchedule(h, s)
      PROVE  Typed'
  <2>1. call[h] # Null /\ call[h] \in Creating
    BY <1>7, KindOfCall DEF InsertSchedule, At
  <2>2. [owner |-> call[h].user, alert_notifier_id |-> call[h].notifier] \in ScheduleRow
    BY <2>1 DEF Creating, ScheduleRow
  <2> QED BY <1>7, <2>2, CallType DEF InsertSchedule, Typed
<1>8. ASSUME NEW h \in Handler, InsertRefused(h)
      PROVE  Typed'
  BY <1>8, CallType DEF InsertRefused, Typed
<1>9. ASSUME NEW h \in Handler, WriteSchedule(h)
      PROVE  Typed'
  <2>1. call[h] # Null /\ call[h] \in Editing \cup Deleting
    BY <1>9, KindOfCall DEF WriteSchedule, At
  <2> DEFINE s == call[h].schedule
             new == IF schedule[s] = Null \/ call[h].kind = "delete" THEN Null
                    ELSE [schedule[s] EXCEPT !.alert_notifier_id = call[h].notifier]
  <2>2. s \in Schedule /\ new \in ScheduleRow \cup {Null}
    BY <2>1 DEF Editing, Deleting, ScheduleRow, Typed
  <2>3. schedule' = [schedule EXCEPT ![s] = new]
    BY <1>9 DEF WriteSchedule
  <2>4. schedule' \in [Schedule -> ScheduleRow \cup {Null}]
    BY <2>2, <2>3 DEF Typed
  <2> QED BY <1>9, <2>4, CallType DEF WriteSchedule, Typed
<1>10. ASSUME NEW h \in Handler, CountReferences(h)
       PROVE  Typed'
  <2>1. call[h] # Null /\ call[h] \in Unbinding
    BY <1>10, KindOfCall DEF CountReferences, At
  <2>2. [call[h] EXCEPT !.pc = "write"] \in Call
    BY <2>1 DEF Call, Unbinding
  <2> QED BY <1>10, <2>2, CallType DEF CountReferences, GoOn, Typed
<1>11. ASSUME NEW h \in Handler, RemoveNotifier(h)
       PROVE  Typed'
  BY <1>11, CallType DEF RemoveNotifier, Typed
<1>12. ASSUME NEW h \in Handler, UpdateRole(h)
       PROVE  Typed'
  <2>1. call[h] # Null /\ call[h] \in Administering
    BY <1>12, KindOfCall DEF UpdateRole, At
  <2>2. call[h].to \in {"user", "admin"}
    BY <2>1 DEF Administering
  <2> QED BY <1>12, <2>2, CallType DEF UpdateRole, Typed
<1>13. ASSUME NEW h \in Handler, DeleteUser(h)
       PROVE  Typed'
  BY <1>13, CallType DEF DeleteUser, Typed
<1>14. ASSUME NEW u \in User, RegisterUser(u) \/ \E n \in Notifier : CreateNotifier(u, n)
       PROVE  Typed'
  BY <1>14 DEF RegisterUser, CreateNotifier, Typed
<1>15. CASE UNCHANGED accountVars
  BY <1>15 DEF accountVars, Typed
<1>16. NoNotifier \in Notifier \cup {NoNotifier} /\ "user" \in {"user", "admin"}
  OBVIOUS
<1> QED BY <1>1, <1>2, <1>3, <1>4, <1>5, <1>6, <1>7, <1>8, <1>9, <1>10, <1>11, <1>12, <1>13, <1>14,
           <1>15, <1>16 DEF AccountsNext

\* The rows and the requests keep their types.
THEOREM AccountsTypeCorrect == AccountsSpec => [](Typed /\ AccountsTypeOK)
<1>1. AccountsInit => Typed
  BY InitTyped
<1>2. Typed /\ [AccountsNext]_accountVars => Typed'
  BY StepTyped
<1>3. Typed => AccountsTypeOK
  BY TypedIsTypeOK
<1> QED BY <1>1, <1>2, <1>3, PTL DEF AccountsSpec
---------------------------------------------------------------------------------
Acts(h) == call[h] # Null /\ call[h].kind \in {"role", "remove"}

\* No request in flight is aimed at the one who makes it.
OnOthers == \A h \in Handler : Acts(h) => call[h].user # call[h].target

\* What puts such a request in flight, and that a request keeps its user and its target.
LEMMA StepOnOthers ==
  ASSUME Typed, OnOthers, [AccountsNext]_accountVars
  PROVE  OnOthers'
<1>1. ASSUME NEW h \in Handler, NEW c, call' = [call EXCEPT ![h] = c],
             c = Null \/ c.kind \notin {"role", "remove"} \/ c.user # c.target
      PROVE  OnOthers'
  <2>1. \A g \in Handler \ {h} : call'[g] = call[g]
    BY <1>1 DEF Typed
  <2>2. call'[h] = c
    BY <1>1 DEF Typed
  <2> QED BY <1>1, <2>1, <2>2 DEF OnOthers, Acts
<1>2. ASSUME NEW h \in Handler, Reply(h)
      PROVE  OnOthers'
  BY <1>1, <1>2 DEF Reply
<1>3. ASSUME NEW h \in Handler, NEW pc, NEW kind \in {"create", "update", "unbind"},
             At(h, kind, pc), NEW next, GoOn(h, next)
      PROVE  OnOthers'
  <2>1. call[h] \in Creating \cup Editing \cup Unbinding
    BY <1>3, KindOfCall DEF At
  <2>2. [call[h] EXCEPT !.pc = next].kind \notin {"role", "remove"}
    BY <2>1 DEF Creating, Editing, Unbinding
  <2> QED BY <1>1, <1>3, <2>2 DEF GoOn
<1>4. ASSUME NEW h \in Handler, NEW u \in User, NEW n \in Notifier \cup {NoNotifier}, CreateSchedule(h, u, n)
      PROVE  OnOthers'
  BY <1>1, <1>4 DEF CreateSchedule, Begin
<1>5. ASSUME NEW h \in Handler, NEW u \in User, NEW n \in Notifier \cup {NoNotifier},
             NEW s \in Schedule, NEW kind \in {"update", "delete"}, EditSchedule(h, u, kind, s, n)
      PROVE  OnOthers'
  BY <1>1, <1>5 DEF EditSchedule, Begin
<1>6. ASSUME NEW h \in Handler, NEW u \in User, NEW n \in Notifier, DeleteNotifier(h, u, n)
      PROVE  OnOthers'
  BY <1>1, <1>6 DEF DeleteNotifier, Begin
<1>7. ASSUME NEW h \in Handler,
             \/ CountSchedules(h) \/ CheckNotifier(h) \/ InsertRefused(h) \/ WriteSchedule(h)
             \/ CountReferences(h) \/ RemoveNotifier(h) \/ UpdateRole(h) \/ DeleteUser(h)
             \/ \E s \in Schedule : InsertSchedule(h, s)
      PROVE  OnOthers'
  BY <1>2, <1>3, <1>7 DEF CountSchedules, CheckNotifier, InsertRefused, WriteSchedule, CountReferences,
     RemoveNotifier, UpdateRole, DeleteUser, InsertSchedule
<1>8. ASSUME \/ \E u \in User : RegisterUser(u) \/ \E n \in Notifier : CreateNotifier(u, n)
             \/ UNCHANGED accountVars
      PROVE  OnOthers'
  <2>1. UNCHANGED call
    BY <1>8 DEF RegisterUser, CreateNotifier, accountVars
  <2> QED BY <2>1 DEF OnOthers, Acts
<1>9. ASSUME NEW h \in Handler, NEW u \in User, NEW target \in User, NEW kind \in {"role", "remove"},
             NEW to \in {"user", "admin"}, Administer(h, u, kind, target, to)
      PROVE  OnOthers'
  <2>1. u # target
    BY <1>9 DEF Administer, NotSelf
  <2> QED BY <1>1, <1>9, <2>1 DEF Administer, Begin
<1>10. NoNotifier \in Notifier \cup {NoNotifier} /\ "user" \in {"user", "admin"}
  OBVIOUS
<1> QED BY <1>4, <1>5, <1>6, <1>7, <1>8, <1>9, <1>10 DEF AccountsNext

\* A caller that is an admin when its statement is executed is one afterwards.
LEMMA StatementKeepsCaller ==
  ASSUME Typed, OnOthers, NEW h \in Handler, UpdateRole(h) \/ DeleteUser(h)
  PROVE  AdminRemains'
<1>1. call[h] # Null /\ call[h] \in Administering
  BY KindOfCall DEF UpdateRole, DeleteUser, At
<1>2. call[h].user \in User /\ call[h].target \in User /\ call[h].user # call[h].target
  BY <1>1 DEF OnOthers, Acts, Administering
<1>3. role'[call[h].user] = role[call[h].user]
  BY <1>2 DEF UpdateRole, DeleteUser, Typed
<1>4. CASE role[call[h].user] = "admin"
  BY <1>2, <1>3, <1>4 DEF AdminRemains
<1>5. CASE role[call[h].user] # "admin"
  <2>1. outranked'
    BY <1>5 DEF UpdateRole, DeleteUser, StillAdmin
  <2> QED BY <2>1 DEF AdminRemains
<1> QED BY <1>4, <1>5

LEMMA StepAdminRemains ==
  ASSUME Typed, OnOthers, AdminRemains, [AccountsNext]_accountVars
  PROVE  AdminRemains'
<1>1. ASSUME UNCHANGED <<role, outranked>>
      PROVE  AdminRemains'
  BY <1>1 DEF AdminRemains
<1>2. ASSUME NEW h \in Handler, \/ CountSchedules(h) \/ CheckNotifier(h) \/ InsertRefused(h)
                                \/ WriteSchedule(h) \/ CountReferences(h) \/ RemoveNotifier(h)
                                \/ \E s \in Schedule : InsertSchedule(h, s)
      PROVE  UNCHANGED <<role, outranked>>
  BY <1>2 DEF CountSchedules, CheckNotifier, InsertSchedule, InsertRefused, WriteSchedule,
     CountReferences, RemoveNotifier
<1>3. ASSUME NEW h \in Handler, NEW u \in User, NEW c, Request(h, u, c)
      PROVE  UNCHANGED <<role, outranked>>
  BY <1>3 DEF Request
<1>4. ASSUME NEW u \in User, RegisterUser(u)
      PROVE  AdminRemains'
  <2>1. \A v \in User : role[v] = "admin" => role'[v] = "admin"
    BY <1>4 DEF RegisterUser, Typed
  <2>2. UNCHANGED outranked
    BY <1>4 DEF RegisterUser
  <2> QED BY <2>1, <2>2 DEF AdminRemains
<1> QED
  BY <1>1, <1>2, <1>3, <1>4, StatementKeepsCaller DEF AccountsNext, CreateSchedule, EditSchedule,
     DeleteNotifier, Administer, CreateNotifier, accountVars

\* However the requests of admins overlap, an admin is left unless the last one that was
\* obeyed had lost its own role before (AdminRemains).
THEOREM AdminsAreLostToOthers == AccountsSpec => []AdminRemains
<1> DEFINE Inv == OnOthers /\ AdminRemains
<1>1. AccountsInit => Inv
  <2> SUFFICES ASSUME AccountsInit PROVE Inv
    OBVIOUS
  <2>1. OnOthers
    BY DEF AccountsInit, OnOthers, Acts
  <2>2. PICK u \in Admins : TRUE
    BY AccountsAssumption
  <2>3. u \in User /\ role[u] = "admin"
    BY <2>2, AccountsAssumption DEF AccountsInit
  <2> QED BY <2>1, <2>3 DEF AdminRemains
<1>2. Typed /\ Inv /\ [AccountsNext]_accountVars => Inv'
  BY StepOnOthers, StepAdminRemains
<1>3. Inv => AdminRemains
  OBVIOUS
<1> HIDE DEF Inv
<1> QED BY <1>1, <1>2, <1>3, AccountsTypeCorrect, PTL DEF AccountsSpec
---------------------------------------------------------------------------------
\* What a user owns after a step, and the requests to create a schedule that are past the
\* count: the step that counts is the only one that adds to them together.
Creates(u) == {h \in Handler : /\ call[h] # Null /\ call[h].kind = "create"
                               /\ call[h].pc # "count" /\ call[h].user = u}

Counted ==
  \A u \in User :
    /\ IsFiniteSet(Owned(u))
    /\ Cardinality(Owned(u)) + Cardinality(Creates(u)) <= MaxSchedules - 1 + Cardinality(Handler)

LEMMA CreatesFinite ==
  ASSUME NEW u \in User
  PROVE  /\ IsFiniteSet(Creates(u)) /\ Cardinality(Creates(u)) \in Nat
         /\ IsFiniteSet(Handler) /\ Cardinality(Handler) \in Nat
         /\ Cardinality(Creates(u)) <= Cardinality(Handler)
<1>1. Creates(u) \subseteq Handler
  BY DEF Creates
<1> QED BY <1>1, HandlersAssumption, FS_Subset, FS_CardinalityType

\* Neither what a user owns nor the requests past the count grow.
LEMMA CountedIfLess ==
  ASSUME NEW u \in User, Counted, Owned(u)' \subseteq Owned(u), Creates(u)' \subseteq Creates(u)
  PROVE  /\ IsFiniteSet(Owned(u)')
         /\ Cardinality(Owned(u)') + Cardinality(Creates(u)') <= MaxSchedules - 1 + Cardinality(Handler)
<1> DEFINE o == Owned(u)
           p == Owned(u)'
           c == Creates(u)
           d == Creates(u)'
<1>1. IsFiniteSet(o) /\ Cardinality(o) \in Nat /\ p \subseteq o
  BY FS_CardinalityType DEF Counted
<1>2. IsFiniteSet(p) /\ Cardinality(p) \in Nat /\ Cardinality(p) <= Cardinality(o)
  BY <1>1, FS_Subset, FS_CardinalityType
<1>3. IsFiniteSet(c) /\ Cardinality(c) \in Nat /\ d \subseteq c /\ Cardinality(Handler) \in Nat
  BY CreatesFinite
<1>4. Cardinality(d) \in Nat /\ Cardinality(d) <= Cardinality(c)
  BY <1>3, FS_Subset, FS_CardinalityType
<1>5. Cardinality(o) + Cardinality(c) <= MaxSchedules - 1 + Cardinality(Handler)
  BY DEF Counted
<1> HIDE DEF o, p, c, d
<1>6. Cardinality(p) + Cardinality(d) <= MaxSchedules - 1 + Cardinality(Handler)
  BY <1>1, <1>2, <1>3, <1>4, <1>5, AccountsAssumption
<1> QED BY <1>2, <1>6 DEF o, p, c, d

LEMMA StepCounted ==
  ASSUME Typed, Counted, [AccountsNext]_accountVars
  PROVE  Counted'
<1> SUFFICES ASSUME NEW u \in User
             PROVE  /\ IsFiniteSet(Owned(u)')
                    /\ Cardinality(Owned(u)') + Cardinality(Creates(u)')
                         <= MaxSchedules - 1 + Cardinality(Handler)
  BY DEF Counted
<1> DEFINE Less == Owned(u)' \subseteq Owned(u) /\ Creates(u)' \subseteq Creates(u)
<1>1. ASSUME NEW h \in Handler, NEW c, call' = [call EXCEPT ![h] = c],
             c = Null \/ c.kind # "create" \/ c.pc = "count"
      PROVE  Creates(u)' \subseteq Creates(u)
  BY <1>1 DEF Creates, Typed
<1>2. ASSUME NEW h \in Handler, NEW v \in User, NEW n \in Notifier \cup {NoNotifier},
             \/ CreateSchedule(h, v, n)
             \/ \E s \in Schedule : EditSchedule(h, v, "update", s, n) \/ EditSchedule(h, v, "delete", s, n)
             \/ n \in Notifier /\ DeleteNotifier(h, v, n)
             \/ \E target \in User, kind \in {"role", "remove"}, to \in {"user", "admin"} :
                  Administer(h, v, kind, target, to)
      PROVE  Less
  BY <1>1, <1>2 DEF CreateSchedule, EditSchedule, DeleteNotifier, Administer, Request, Begin, Owned
<1>3. ASSUME NEW h \in Handler, CountSchedules(h)
      PROVE  \/ Less
             \/ Cardinality(Owned(u)) < MaxSchedules /\ Owned(u)' = Owned(u)
  <2>1. Owned(u)' = Owned(u)
    BY <1>3 DEF CountSchedules, Owned
  <2>2. CASE ~WithinLimit(call[h].user)
    BY <1>1, <1>3, <2>1, <2>2 DEF CountSchedules, Reply
  <2>3. CASE WithinLimit(call[h].user) /\ call[h].user = u
    BY <2>1, <2>3 DEF WithinLimit
  <2>4. CASE WithinLimit(call[h].user) /\ call[h].user # u
    <3>1. call[h] # Null /\ call[h] \in Creating /\ call' = [call EXCEPT ![h].pc = "notifier"]
      BY <1>3, <2>4, KindOfCall DEF CountSchedules, At, GoOn
    <3>2. call'[h].user = call[h].user /\ \A g \in Handler \ {h} : call'[g] = call[g]
      BY <3>1 DEF Creating, Typed
    <3> QED BY <2>1, <2>4, <3>2 DEF Creates
  <2> QED BY <2>2, <2>3, <2>4
<1>4. ASSUME NEW h \in Handler, CheckNotifier(h) \/ CountReferences(h)
      PROVE  Less
  <2>1. Owned(u)' = Owned(u) /\ (GoOn(h, "write") \/ Reply(h))
    BY <1>4 DEF CheckNotifier, CountReferences, Owned
  <2>2. CASE Reply(h)
    BY <1>1, <2>1, <2>2 DEF Reply
  <2>3. CASE GoOn(h, "write")
    <3>1. /\ call[h] # Null
          /\ call[h].kind = "create" => call[h].pc # "count"
          /\ call[h] \in Creating \cup Editing \cup Unbinding
      BY <1>4, KindOfCall DEF CheckNotifier, CountReferences, At
    <3>2. /\ call'[h].user = call[h].user /\ call'[h].kind = call[h].kind
          /\ \A g \in Handler \ {h} : call'[g] = call[g]
      BY <2>3, <3>1 DEF GoOn, Creating, Editing, Unbinding, Typed
    <3>3. ASSUME NEW g \in Creates(u)' PROVE g \in Creates(u)
      <4>1. g \in Handler /\ call'[g].kind = "create" /\ call'[g].user = u /\ call'[g].pc # "count"
            /\ call'[g] # Null
        BY DEF Creates
      <4>2. CASE g = h
        BY <3>1, <3>2, <4>1, <4>2 DEF Creates
      <4>3. CASE g # h
        BY <3>2, <4>1, <4>3 DEF Creates
      <4> QED BY <4>2, <4>3
    <3> QED BY <2>1, <3>3
  <2> QED BY <2>1, <2>2, <2>3
<1>5. ASSUME NEW h \in Handler, NEW s \in Schedule, InsertSchedule(h, s)
      PROVE  \/ Less
             \/ /\ Owned(u)' \subseteq Owned(u) \cup {s}
                /\ h \in Creates(u) /\ Creates(u)' \subseteq Creates(u) \ {h}
  <2>1. /\ call[h] # Null /\ call[h] \in Creating /\ call[h].kind = "create" /\ call[h].pc = "write"
        /\ call' = [call EXCEPT ![h] = Null]
        /\ schedule' = [schedule EXCEPT
             ![s] = [owner |-> call[h].user, alert_notifier_id |-> call[h].notifier]]
    BY <1>5, KindOfCall DEF InsertSchedule, At, Reply
  <2>2. Creates(u)' \subseteq Creates(u) \ {h}
    BY <2>1 DEF Creates, Typed
  <2>3. CASE call[h].user = u
    BY <2>1, <2>2, <2>3 DEF Creates, Owned, Typed
  <2>4. CASE call[h].user # u
    BY <2>1, <2>2, <2>4 DEF Owned, Typed
  <2> QED BY <2>3, <2>4
<1>6. ASSUME NEW h \in Handler,
             \/ InsertRefused(h) \/ WriteSchedule(h) \/ RemoveNotifier(h) \/ UpdateRole(h) \/ DeleteUser(h)
      PROVE  Less
  <2>1. Reply(h)
    BY <1>6 DEF InsertRefused, WriteSchedule, RemoveNotifier, UpdateRole, DeleteUser
  <2>2. CASE WriteSchedule(h)
    <3>1. call[h] # Null /\ call[h] \in Editing \cup Deleting
      BY <2>2, KindOfCall DEF WriteSchedule, At
    <3>2. call[h].schedule \in Schedule
      BY <3>1 DEF Editing, Deleting
    <3>3. \A s \in Schedule : schedule'[s] # Null =>
            schedule[s] # Null /\ schedule'[s].owner = schedule[s].owner
      BY <2>2, <3>2 DEF WriteSchedule, Typed, ScheduleRow
    <3> QED BY <1>1, <2>1, <3>3 DEF Owned, Reply
  <2>3. CASE DeleteUser(h)
    BY <1>1, <2>1, <2>3 DEF DeleteUser, Owned, Reply
  <2>4. CASE UNCHANGED schedule
    BY <1>1, <2>1, <2>4 DEF Owned, Reply
  <2> QED BY <1>6, <2>2, <2>3, <2>4 DEF InsertRefused, RemoveNotifier, UpdateRole
<1>7. ASSUME \/ \E v \in User : RegisterUser(v) \/ \E n \in Notifier : CreateNotifier(v, n)
             \/ UNCHANGED accountVars
      PROVE  Less
  BY <1>7 DEF RegisterUser, CreateNotifier, accountVars, Owned, Creates
<1>8. CASE Less
  BY <1>8, CountedIfLess
<1> DEFINE o == Owned(u)
           p == Owned(u)'
           c == Creates(u)
           d == Creates(u)'
<1>9. /\ IsFiniteSet(o) /\ Cardinality(o) \in Nat /\ IsFiniteSet(c) /\ Cardinality(c) \in Nat
      /\ Cardinality(o) + Cardinality(c) <= MaxSchedules - 1 + Cardinality(Handler)
      /\ IsFiniteSet(Handler) /\ Cardinality(Handler) \in Nat
  BY CreatesFinite, FS_CardinalityType DEF Counted
<1>10. d \subseteq Handler
  BY DEF Creates
<1>11. Cardinality(d) \in Nat /\ Cardinality(d) <= Cardinality(Handler)
  BY <1>9, <1>10, FS_Subset, FS_CardinalityType
<1>12. CASE Cardinality(Owned(u)) < MaxSchedules /\ Owned(u)' = Owned(u)
  <2>1. Cardinality(o) < MaxSchedules /\ p = o
    BY <1>12
  <2> HIDE DEF o, p, c, d
  <2>2. IsFiniteSet(p) /\ Cardinality(p) + Cardinality(d) <= MaxSchedules - 1 + Cardinality(Handler)
    BY <1>9, <1>11, <2>1, AccountsAssumption
  <2> QED BY <2>2 DEF o, p, c, d
<1>13. ASSUME NEW h \in Handler, NEW s \in Schedule, p \subseteq o \cup {s},
              h \in c, d \subseteq c \ {h}
       PROVE  IsFiniteSet(p) /\ Cardinality(p) + Cardinality(d) <= MaxSchedules - 1 + Cardinality(Handler)
  <2> HIDE DEF o, p, c, d
  <2>1. /\ IsFiniteSet(o \cup {s}) /\ Cardinality(o \cup {s}) \in Nat
        /\ Cardinality(o \cup {s}) <= Cardinality(o) + 1
    <3>1. /\ IsFiniteSet(o \cup {s})
          /\ \/ Cardinality(o \cup {s}) = Cardinality(o)
             \/ Cardinality(o \cup {s}) = Cardinality(o) + 1
      BY <1>9, FS_AddElement
    <3> QED BY <1>9, <3>1
  <2>2. IsFiniteSet(p) /\ Cardinality(p) \in Nat /\ Cardinality(p) <= Cardinality(o \cup {s})
    BY <1>13, <2>1, FS_Subset, FS_CardinalityType
  <2>3. IsFiniteSet(c \ {h}) /\ Cardinality(c \ {h}) = Cardinality(c) - 1
    BY <1>9, <1>13, FS_RemoveElement
  <2>4. Cardinality(d) <= Cardinality(c \ {h})
    BY <1>13, <2>3, FS_Subset
  <2> QED BY <1>9, <1>11, <2>1, <2>2, <2>3, <2>4, AccountsAssumption
<1> HIDE DEF Less
<1>14. NoNotifier \in Notifier \cup {NoNotifier} /\ "user" \in {"user", "admin"}
  OBVIOUS
<1>15. \/ Less
       \/ Cardinality(Owned(u)) < MaxSchedules /\ Owned(u)' = Owned(u)
       \/ \E h \in Handler, s \in Schedule : p \subseteq o \cup {s} /\ h \in c /\ d \subseteq c \ {h}
  BY <1>2, <1>3, <1>4, <1>5, <1>6, <1>7, <1>14 DEF AccountsNext
<1> QED BY <1>8, <1>12, <1>13, <1>15

\* The limit on schedules is exceeded by the requests that overlap and by no more
\* (SchedulesBounded), however they interleave with deletions.
THEOREM SchedulesAlwaysBounded == AccountsSpec => []SchedulesBounded
<1>1. AccountsInit => Counted
  <2> SUFFICES ASSUME AccountsInit, NEW u \in User
               PROVE  /\ IsFiniteSet(Owned(u))
                      /\ Cardinality(Owned(u)) + Cardinality(Creates(u))
                           <= MaxSchedules - 1 + Cardinality(Handler)
    BY DEF Counted
  <2>1. Owned(u) = {} /\ Creates(u) = {}
    BY DEF AccountsInit, Owned, Creates
  <2>2. IsFiniteSet({}) /\ Cardinality({}) = 0
    BY FS_EmptySet
  <2> QED BY <2>1, <2>2, CreatesFinite, AccountsAssumption
<1>2. Typed /\ Counted /\ [AccountsNext]_accountVars => Counted'
  BY StepCounted
<1>3. Counted => SchedulesBounded
  <2> SUFFICES ASSUME Counted, NEW u \in User
               PROVE  Cardinality(Owned(u)) <= MaxSchedules + Cardinality(Handler) - 1
    BY DEF SchedulesBounded
  <2>1. Cardinality(Owned(u)) \in Nat
    BY FS_CardinalityType DEF Counted
  <2> QED BY <2>1, CreatesFinite, AccountsAssumption DEF Counted
<1> QED BY <1>1, <1>2, <1>3, AccountsTypeCorrect, PTL DEF AccountsSpec
---------------------------------------------------------------------------------
\* Requests of some kinds do not overlap with requests of others.
Exclude(kinds, others) == kinds \X others \subseteq Apart

SaveOrUnbind ==
  Exclude({"unbind"}, {"create", "update"}) /\ Exclude({"create", "update"}, {"unbind"})

Unbinds(h) == call[h] # Null /\ call[h].kind = "unbind"
Saves(h) == call[h] # Null /\ call[h].kind \in {"create", "update"}
Separate == \A g, h \in Handler : ~(Unbinds(g) /\ Saves(h))

\* What the rows say, and the ids that were given out.
RowsResolve ==
  /\ NotifiersResolve
  /\ \A s \in Schedule : schedule[s] # Null => s \in used /\ Registered(schedule[s].owner)
  /\ \A n \in Notifier : notifier[n] # Null => n \in used

\* What a request in flight may still rely on when it writes.
Relies(c) ==
  /\ c.kind \in {"create", "update"} =>
       /\ role[c.user] # "new"
       /\ c.pc = "write" /\ Registered(c.user) => NotifierOf(c.notifier, c.user)
  /\ c.kind = "update" =>
       /\ c.schedule \in used
       /\ schedule[c.schedule] # Null => schedule[c.schedule].owner = c.user
  /\ c.kind = "unbind" /\ c.pc = "write" => References(c.notifier) = {}

CallsRely == \A h \in Handler : call[h] # Null => Relies(call[h])

Resolving == Separate /\ RowsResolve /\ CallsRely

\* A step goes on with one request, or begins one that may begin.
LEMMA KindsKept ==
  ASSUME Typed, [AccountsNext]_accountVars
  PROVE  \/ \A h \in Handler : call'[h] # Null => call[h] # Null /\ call'[h].kind = call[h].kind
         \/ \E h \in Handler, kind \in {"create", "update", "delete", "unbind", "role", "remove"} :
              /\ MayBegin(call, kind, Apart) /\ call'[h].kind = kind
              /\ \A g \in Handler \ {h} : call'[g] = call[g]
<1> DEFINE Kept == \A h \in Handler : call'[h] # Null => call[h] # Null /\ call'[h].kind = call[h].kind
           Begun(h, kind) == /\ MayBegin(call, kind, Apart) /\ call'[h].kind = kind
                             /\ \A g \in Handler \ {h} : call'[g] = call[g]
<1>1. ASSUME NEW h \in Handler, Reply(h)
      PROVE  Kept
  BY <1>1 DEF Reply, Typed
<1>2. ASSUME NEW h \in Handler, NEW next, GoOn(h, next), call[h] # Null
      PROVE  Kept
  <2>1. call[h] \in Call
    BY <1>2 DEF Typed
  <2>2. [call[h] EXCEPT !.pc = next].kind = call[h].kind
    BY <2>1 DEF Call, Creating, Editing, Deleting, Unbinding, Administering
  <2> QED BY <1>2, <2>2 DEF GoOn, Typed
<1>3. ASSUME NEW h \in Handler, NEW c, Begin(h, c), MayBegin(call, c.kind, Apart)
      PROVE  Begun(h, c.kind)
  BY <1>3 DEF Begin, Typed
<1>4. ASSUME NEW h \in Handler, NEW u \in User, NEW n \in Notifier \cup {NoNotifier}, CreateSchedule(h, u, n)
      PROVE  Begun(h, "create")
  BY <1>3, <1>4 DEF CreateSchedule, Request
<1>5. ASSUME NEW h \in Handler, NEW u \in User, NEW n \in Notifier \cup {NoNotifier},
             NEW s \in Schedule, NEW kind \in {"update", "delete"}, EditSchedule(h, u, kind, s, n)
      PROVE  Begun(h, kind)
  BY <1>3, <1>5 DEF EditSchedule, Request
<1>6. ASSUME NEW h \in Handler, NEW u \in User, NEW n \in Notifier, DeleteNotifier(h, u, n)
      PROVE  Begun(h, "unbind")
  BY <1>3, <1>6 DEF DeleteNotifier, Request
<1>7. ASSUME NEW h \in Handler, NEW u \in User, NEW target \in User, NEW kind \in {"role", "remove"},
             NEW to \in {"user", "admin"}, Administer(h, u, kind, target, to)
      PROVE  Begun(h, kind)
  BY <1>3, <1>7 DEF Administer, Request
<1>8. ASSUME NEW h \in Handler,
             \/ CountSchedules(h) \/ CheckNotifier(h) \/ InsertRefused(h) \/ WriteSchedule(h)
             \/ CountReferences(h) \/ RemoveNotifier(h) \/ UpdateRole(h) \/ DeleteUser(h)
             \/ \E s \in Schedule : InsertSchedule(h, s)
      PROVE  Kept
  BY <1>1, <1>2, <1>8 DEF CountSchedules, CheckNotifier, InsertRefused, WriteSchedule, CountReferences,
     RemoveNotifier, UpdateRole, DeleteUser, InsertSchedule, At
<1>9. ASSUME \/ \E u \in User : RegisterUser(u) \/ \E n \in Notifier : CreateNotifier(u, n)
             \/ UNCHANGED accountVars
      PROVE  Kept
  BY <1>9 DEF RegisterUser, CreateNotifier, accountVars
<1> HIDE DEF Kept, Begun
<1>10. NoNotifier \in Notifier \cup {NoNotifier} /\ "user" \in {"user", "admin"}
  OBVIOUS
<1>11. \/ Kept
       \/ \E h \in Handler, kind \in {"create", "update", "delete", "unbind", "role", "remove"} :
            Begun(h, kind)
  BY <1>4, <1>5, <1>6, <1>7, <1>8, <1>9, <1>10 DEF AccountsNext
<1> QED BY <1>11 DEF Kept, Begun

LEMMA StepSeparate ==
  ASSUME SaveOrUnbind, Typed, Separate, [AccountsNext]_accountVars
  PROVE  Separate'
<1>1. CASE \A h \in Handler : call'[h] # Null => call[h] # Null /\ call'[h].kind = call[h].kind
  BY <1>1 DEF Separate, Unbinds, Saves
<1>2. ASSUME NEW h \in Handler, NEW kind \in {"create", "update", "delete", "unbind", "role", "remove"},
             MayBegin(call, kind, Apart), call'[h].kind = kind,
             \A g \in Handler \ {h} : call'[g] = call[g]
      PROVE  Separate'
  <2>1. kind = "unbind" => \A g \in Handler : ~Saves(g)
    BY <1>2 DEF MayBegin, InFlight, Idle, SaveOrUnbind, Exclude, Saves
  <2>2. kind \in {"create", "update"} => \A g \in Handler : ~Unbinds(g)
    BY <1>2 DEF MayBegin, InFlight, Idle, SaveOrUnbind, Exclude, Unbinds
  <2> QED BY <1>2, <2>1, <2>2 DEF Separate, Unbinds, Saves
<1> QED BY <1>1, <1>2, KindsKept

\* A request that begins, goes on or is answered while the rows stay as they are.
LEMMA OnlyCallChanges ==
  ASSUME Typed, RowsResolve, CallsRely, UNCHANGED <<role, schedule, notifier, used>>,
         NEW h \in Handler, NEW c, call' = [call EXCEPT ![h] = c], c = Null \/ Relies(c)
  PROVE  RowsResolve' /\ CallsRely'
<1>1. RowsResolve'
  BY DEF RowsResolve, NotifiersResolve, NotifierOf, Registered
<1>2. ASSUME NEW g \in Handler, call'[g] # Null
      PROVE  Relies(call'[g])
  BY <1>2 DEF CallsRely, Typed
<1>3. ASSUME NEW g \in Handler, call'[g] # Null
      PROVE  Relies(call[g])'
  BY <1>2, <1>3 DEF Relies, NotifierOf, Registered, References
<1> QED BY <1>1, <1>3 DEF CallsRely

\* Rows that change, with a request that is answered or with none: what the requests in
\* flight rely on must survive.
LEMMA OnlyRowsChange ==
  ASSUME Typed, CallsRely,
         \/ UNCHANGED call
         \/ \E h \in Handler : call' = [call EXCEPT ![h] = Null],
         \A g \in Handler : call[g] # Null /\ call'[g] = call[g] /\ Relies(call[g]) => Relies(call[g])'
  PROVE  CallsRely'
<1>1. ASSUME NEW g \in Handler, call'[g] # Null
      PROVE  call[g] # Null /\ call'[g] = call[g]
  BY <1>1 DEF Typed
<1> QED BY <1>1 DEF CallsRely

LEMMA StepResolving ==
  ASSUME SaveOrUnbind, Typed, Resolving, [AccountsNext]_accountVars
  PROVE  Resolving'
<1> SUFFICES RowsResolve' /\ CallsRely'
  BY StepSeparate DEF Resolving
<1>a. Separate /\ RowsResolve /\ CallsRely
  BY DEF Resolving
<1>1. ASSUME NEW h \in Handler, NEW u \in User, NEW n \in Notifier \cup {NoNotifier}, CreateSchedule(h, u, n)
      PROVE  RowsResolve' /\ CallsRely'
  <2>1. Relies([kind |-> "create", pc |-> "count", user |-> u, notifier |-> n])
    BY <1>1 DEF Relies, CreateSchedule, Request, Registered
  <2> QED BY <1>1, <1>a, <2>1, OnlyCallChanges DEF CreateSchedule, Request, Begin
<1>2. ASSUME NEW h \in Handler, NEW u \in User, NEW n \in Notifier \cup {NoNotifier},
             NEW s \in Schedule, NEW kind \in {"update", "delete"}, EditSchedule(h, u, kind, s, n)
      PROVE  RowsResolve' /\ CallsRely'
  <2>1. role[u] # "new" /\ schedule[s] # Null /\ schedule[s].owner = u /\ s \in used
    BY <1>2, <1>a DEF EditSchedule, Request, Registered, Owned, RowsResolve
  <2>2. Relies([kind |-> kind, pc |-> IF kind = "update" THEN "notifier" ELSE "write",
                user |-> u, notifier |-> n, schedule |-> s])
    BY <2>1 DEF Relies
  <2> QED BY <1>2, <1>a, <2>2, OnlyCallChanges DEF EditSchedule, Request, Begin
<1>3. ASSUME NEW h \in Handler, NEW u \in User, NEW n \in Notifier, DeleteNotifier(h, u, n)
      PROVE  RowsResolve' /\ CallsRely'
  <2>1. Relies([kind |-> "unbind", pc |-> "count", user |-> u, notifier |-> n])
    BY DEF Relies
  <2> QED BY <1>3, <1>a, <2>1, OnlyCallChanges DEF DeleteNotifier, Request, Begin
<1>4. ASSUME NEW h \in Handler, NEW u \in User, NEW target \in User, NEW kind \in {"role", "remove"},
             NEW to \in {"user", "admin"}, Administer(h, u, kind, target, to)
      PROVE  RowsResolve' /\ CallsRely'
  <2>1. Relies([kind |-> kind, pc |-> "write", user |-> u, target |-> target, to |-> to])
    BY DEF Relies
  <2> QED BY <1>4, <1>a, <2>1, OnlyCallChanges DEF Administer, Request, Begin
<1>5. ASSUME NEW h \in Handler, CountSchedules(h)
      PROVE  RowsResolve' /\ CallsRely'
  <2>1. call[h] # Null /\ call[h] \in Creating /\ Relies(call[h])
    BY <1>5, <1>a, KindOfCall DEF CountSchedules, At, CallsRely
  <2>2. Relies([call[h] EXCEPT !.pc = "notifier"])
    BY <2>1 DEF Relies, Creating
  <2> QED BY <1>5, <1>a, <2>2, OnlyCallChanges DEF CountSchedules, GoOn, Reply
<1>6. ASSUME NEW h \in Handler, CheckNotifier(h)
      PROVE  RowsResolve' /\ CallsRely'
  <2>1. /\ call[h] # Null /\ call[h] \in Creating \cup Editing /\ Relies(call[h])
        /\ call[h].kind \in {"create", "update"}
    BY <1>6, <1>a, KindOfCall DEF CheckNotifier, At, CallsRely
  <2>2. CASE NotifierOf(call[h].notifier, call[h].user)
    <3> DEFINE c == [call[h] EXCEPT !.pc = "write"]
    <3>1. /\ c.user = call[h].user /\ c.notifier = call[h].notifier /\ c.kind = call[h].kind
          /\ c.kind = "update" => c.schedule = call[h].schedule
      BY <2>1 DEF Creating, Editing
    <3> HIDE DEF c
    <3>2. Relies(c)
      BY <2>1, <2>2, <3>1 DEF Relies
    <3> QED BY <1>6, <1>a, <2>2, <3>2, OnlyCallChanges DEF CheckNotifier, GoOn, c
  <2>3. CASE ~NotifierOf(call[h].notifier, call[h].user)
    BY <1>6, <1>a, <2>3, OnlyCallChanges DEF CheckNotifier, Reply
  <2> QED BY <2>2, <2>3
<1>7. ASSUME NEW h \in Handler, CountReferences(h)
      PROVE  RowsResolve' /\ CallsRely'
  <2>1. call[h] # Null /\ call[h] \in Unbinding
    BY <1>7, KindOfCall DEF CountReferences, At
  <2>2. CASE Unreferenced(call[h].notifier)
    <3>1. Relies([call[h] EXCEPT !.pc = "write"])
      BY <2>1, <2>2 DEF Relies, Unbinding, Unreferenced
    <3> QED BY <1>7, <1>a, <2>2, <3>1, OnlyCallChanges DEF CountReferences, GoOn
  <2>3. CASE ~Unreferenced(call[h].notifier)
    BY <1>7, <1>a, <2>3, OnlyCallChanges DEF CountReferences, Reply
  <2> QED BY <2>2, <2>3
<1>8. ASSUME NEW h \in Handler, InsertRefused(h)
      PROVE  RowsResolve' /\ CallsRely'
  BY <1>8, <1>a, OnlyCallChanges DEF InsertRefused, Reply
<1>9. ASSUME NEW h \in Handler, NEW t \in Schedule, InsertSchedule(h, t)
      PROVE  RowsResolve' /\ CallsRely'
  <2> DEFINE row == [owner |-> call[h].user, alert_notifier_id |-> call[h].notifier]
  <2>1. /\ call[h] # Null /\ call[h] \in Creating /\ Relies(call[h]) /\ call[h].kind = "create"
        /\ call[h].pc = "write" /\ Registered(call[h].user) /\ t \notin used
        /\ schedule' = [schedule EXCEPT ![t] = row] /\ used' = used \cup {t}
        /\ call' = [call EXCEPT ![h] = Null] /\ UNCHANGED <<role, notifier>>
    BY <1>9, <1>a, KindOfCall DEF InsertSchedule, At, Reply, CallsRely
  <2>2. NotifierOf(row.alert_notifier_id, row.owner)
    BY <2>1 DEF Relies
  <2>3. schedule'[t] = row /\ \A s \in Schedule \ {t} : schedule'[s] = schedule[s]
    BY <2>1 DEF Typed
  <2>4. RowsResolve'
    BY <1>a, <2>1, <2>2, <2>3 DEF RowsResolve, NotifiersResolve, NotifierOf, Registered
  <2>5. ASSUME NEW g \in Handler, call[g] # Null, call'[g] = call[g], Relies(call[g])
        PROVE  Relies(call[g])'
    <3>1. ~(call[g].kind = "unbind")
      BY <1>a, <2>1, <2>5 DEF Separate, Unbinds, Saves
    <3>2. call[g].kind = "update" => call[g].schedule \in Schedule \ {t}
      BY <2>1, <2>5, KindOfCall DEF Relies, Editing
    <3> QED BY <2>1, <2>3, <2>5, <3>1, <3>2 DEF Relies, NotifierOf, Registered
  <2> QED BY <1>a, <2>1, <2>4, <2>5, OnlyRowsChange
<1>10. ASSUME NEW h \in Handler, WriteSchedule(h)
       PROVE  RowsResolve' /\ CallsRely'
  <2> DEFINE t == call[h].schedule
             new == IF schedule[t] = Null \/ call[h].kind = "delete" THEN Null
                    ELSE [schedule[t] EXCEPT !.alert_notifier_id = call[h].notifier]
  <2>1. /\ call[h] # Null /\ call[h] \in Editing \cup Deleting /\ Relies(call[h])
        /\ call[h].pc = "write" /\ call' = [call EXCEPT ![h] = Null]
        /\ schedule' = [schedule EXCEPT ![t] = new] /\ UNCHANGED <<role, notifier, used>>
    BY <1>10, <1>a, KindOfCall DEF WriteSchedule, At, Reply, CallsRely
  <2>2. t \in Schedule
    BY <2>1 DEF Editing, Deleting
  <2>3. /\ schedule'[t] = new
        /\ \A s \in Schedule \ {t} : schedule'[s] = schedule[s]
    BY <2>1, <2>2 DEF Typed
  <2>4. new # Null =>
          /\ schedule[t] # Null /\ schedule[t].owner = call[h].user
          /\ new.owner = schedule[t].owner /\ new.alert_notifier_id = call[h].notifier
          /\ NotifierOf(new.alert_notifier_id, new.owner)
    <3> SUFFICES ASSUME new # Null PROVE
          /\ schedule[t] # Null /\ schedule[t].owner = call[h].user
          /\ new.owner = schedule[t].owner /\ new.alert_notifier_id = call[h].notifier
          /\ NotifierOf(new.alert_notifier_id, new.owner)
      OBVIOUS
    <3>1. schedule[t] # Null /\ call[h].kind # "delete"
      OBVIOUS
    <3>2. call[h].kind = "update"
      BY <2>1, <3>1 DEF Editing, Deleting
    <3>3. schedule[t].owner = call[h].user /\ Registered(schedule[t].owner)
      BY <1>a, <2>1, <2>2, <3>1, <3>2 DEF Relies, RowsResolve
    <3>4. NotifierOf(call[h].notifier, call[h].user)
      BY <2>1, <3>2, <3>3 DEF Relies
    <3>5. schedule[t] \in ScheduleRow
      BY <2>2, <3>1 DEF Typed
    <3>6. new.owner = schedule[t].owner /\ new.alert_notifier_id = call[h].notifier
      BY <3>1, <3>5 DEF ScheduleRow
    <3> QED BY <3>1, <3>3, <3>4, <3>6
  <2> HIDE DEF new
  <2>5. RowsResolve'
    BY <1>a, <2>1, <2>2, <2>3, <2>4 DEF RowsResolve, NotifiersResolve, NotifierOf, Registered
  <2>6. call[h].kind = "update" \/ new = Null
    BY <2>1 DEF Editing, Deleting, new
  <2>7. ASSUME NEW g \in Handler, call[g] # Null, call'[g] = call[g], Relies(call[g])
        PROVE  Relies(call[g])'
    <3>1. call[g].kind = "unbind" => References(call[g].notifier)' \subseteq References(call[g].notifier)
      <4>1. CASE new = Null
        BY <2>2, <2>3, <2>7, <4>1 DEF References
      <4>2. CASE call[h].kind = "update"
        BY <1>a, <2>1, <2>7, <4>2 DEF Separate, Unbinds, Saves
      <4> QED BY <2>6, <4>1, <4>2
    <3>2. call[g].kind = "update" => call[g].schedule \in Schedule
      BY <2>7, KindOfCall DEF Editing
    <3>3. \A s \in Schedule : schedule'[s] # Null =>
            schedule[s] # Null /\ schedule'[s].owner = schedule[s].owner
      BY <2>2, <2>3, <2>4
    <3>4. References(call[g].notifier)' \subseteq {} \/ call[g].kind # "unbind" \/ call[g].pc # "write"
      BY <2>7, <3>1 DEF Relies
    <3> QED BY <2>1, <2>7, <3>2, <3>3, <3>4 DEF Relies, NotifierOf, Registered
  <2> QED BY <1>a, <2>1, <2>5, <2>7, OnlyRowsChange
<1>11. ASSUME NEW h \in Handler, RemoveNotifier(h)
       PROVE  RowsResolve' /\ CallsRely'
  <2>1. /\ call[h] # Null /\ call[h] \in Unbinding /\ Relies(call[h]) /\ call[h].kind = "unbind"
        /\ call[h].pc = "write" /\ call' = [call EXCEPT ![h] = Null]
        /\ notifier' = [notifier EXCEPT ![call[h].notifier] = Null] /\ UNCHANGED <<role, schedule, used>>
    BY <1>11, <1>a, KindOfCall DEF RemoveNotifier, At, Reply, CallsRely
  <2>2. References(call[h].notifier) = {}
    BY <2>1 DEF Relies
  <2>3. \A n : n # call[h].notifier => notifier'[n] = notifier[n] \/ n \notin Notifier
    BY <2>1 DEF Typed
  <2>4. \A s \in Schedule : schedule[s] # Null =>
          /\ schedule[s].alert_notifier_id # call[h].notifier
          /\ schedule[s].alert_notifier_id \in NotifierId
    BY <2>2 DEF References, Typed, ScheduleRow
  <2>5. RowsResolve'
    BY <1>a, <2>1, <2>3, <2>4 DEF RowsResolve, NotifiersResolve, NotifierOf, Registered, NotifierId, Typed
  <2>6. ASSUME NEW g \in Handler, call[g] # Null, call'[g] = call[g], Relies(call[g])
        PROVE  Relies(call[g])'
    <3>1. call[g].kind \notin {"create", "update"}
      BY <1>a, <2>1, <2>6 DEF Separate, Unbinds, Saves
    <3> QED BY <2>1, <2>6, <3>1 DEF Relies, References
  <2> QED BY <1>a, <2>1, <2>5, <2>6, OnlyRowsChange
<1>12. ASSUME NEW h \in Handler, UpdateRole(h)
       PROVE  RowsResolve' /\ CallsRely'
  <2>1. /\ call' = [call EXCEPT ![h] = Null] /\ UNCHANGED <<schedule, notifier, used>>
        /\ \A u \in User : /\ Registered(u)' <=> Registered(u)
                           /\ role'[u] = "new" <=> role[u] = "new"
    <3>1. call[h] # Null /\ call[h] \in Administering
      BY <1>12, KindOfCall DEF UpdateRole, At
    <3>2. call[h].target \in User /\ call[h].to \in {"user", "admin"}
      BY <3>1 DEF Administering
    <3> QED BY <1>12, <3>2 DEF UpdateRole, Reply, Registered, Typed
  <2>2. RowsResolve'
    <3>1. \A s \in Schedule : schedule[s] # Null => schedule[s].owner \in User
      BY DEF Typed, ScheduleRow
    <3> QED BY <1>a, <2>1, <3>1 DEF RowsResolve, NotifiersResolve, NotifierOf
  <2>3. ASSUME NEW g \in Handler, call[g] # Null, call'[g] = call[g], Relies(call[g])
        PROVE  Relies(call[g])'
    <3>1. call[g].kind \in {"create", "update"} => call[g].user \in User
      BY <2>3, KindOfCall DEF Creating, Editing
    <3> QED BY <2>1, <2>3, <3>1 DEF Relies, References, NotifierOf
  <2> QED BY <1>a, <2>1, <2>2, <2>3, OnlyRowsChange
<1>13. ASSUME NEW h \in Handler, DeleteUser(h)
       PROVE  RowsResolve' /\ CallsRely'
  <2>1. PICK v \in User :
        /\ call' = [call EXCEPT ![h] = Null] /\ UNCHANGED used
        /\ role' = [role EXCEPT ![v] = IF Registered(v) THEN "gone" ELSE @]
        /\ schedule' = [s \in Schedule |-> IF s \in Owned(v) THEN Null ELSE schedule[s]]
        /\ notifier' = [n \in Notifier |-> IF notifier[n] = v THEN Null ELSE notifier[n]]
    <3>1. call[h] # Null /\ call[h] \in Administering
      BY <1>13, KindOfCall DEF DeleteUser, At
    <3>2. call[h].target \in User
      BY <3>1 DEF Administering
    <3> QED BY <1>13, <3>2 DEF DeleteUser, Reply
  <2>2. /\ ~Registered(v)'
        /\ \A u \in User \ {v} : role'[u] = role[u]
        /\ \A u \in User : (role'[u] = "new" <=> role[u] = "new")
    BY <2>1 DEF Registered, Typed
  <2>3. \A s \in Schedule : schedule'[s] # Null =>
          schedule[s] # Null /\ schedule'[s] = schedule[s] /\ schedule[s].owner \in User \ {v}
    BY <2>1 DEF Owned, Typed, ScheduleRow
  <2>4. \A n, u : n \in NotifierId /\ u \in User \ {v} /\ NotifierOf(n, u) => NotifierOf(n, u)'
    BY <2>1 DEF NotifierOf, NotifierId
  <2>5. RowsResolve'
    <3>1. NotifiersResolve'
      <4> SUFFICES ASSUME NEW s \in Schedule, schedule'[s] # Null
                   PROVE  NotifierOf(schedule[s].alert_notifier_id, schedule[s].owner)'
        BY DEF NotifiersResolve
      <4>1. schedule[s] \in ScheduleRow /\ NotifierOf(schedule[s].alert_notifier_id, schedule[s].owner)
        BY <1>a, <2>3 DEF Typed, RowsResolve, NotifiersResolve
      <4>2. schedule[s].alert_notifier_id \in NotifierId
        BY <4>1 DEF ScheduleRow
      <4> QED BY <2>3, <2>4, <4>1, <4>2
    <3>2. \A s \in Schedule : schedule'[s] # Null => s \in used' /\ Registered(schedule[s].owner)'
      BY <1>a, <2>1, <2>2, <2>3 DEF RowsResolve, Registered
    <3>3. \A n \in Notifier : notifier'[n] # Null => n \in used'
      BY <1>a, <2>1 DEF RowsResolve
    <3> QED BY <3>1, <3>2, <3>3 DEF RowsResolve
  <2>6. ASSUME NEW g \in Handler, call[g] # Null, call'[g] = call[g], Relies(call[g])
        PROVE  Relies(call[g])'
    <3> DEFINE c == call[g]
    <3>1. /\ c.kind \in {"create", "update"} => c.user \in User /\ c.notifier \in NotifierId
          /\ c.kind = "update" => c.schedule \in Schedule
      BY <2>6, KindOfCall DEF Creating, Editing
    <3>2. References(c.notifier)' \subseteq References(c.notifier)
      BY <2>3, <2>6 DEF References
    <3>3. c.kind \in {"create", "update"} =>
            /\ role'[c.user] # "new"
            /\ c.pc = "write" /\ Registered(c.user)' => NotifierOf(c.notifier, c.user)'
      <4>1. CASE c.user = v
        BY <2>2, <2>6, <3>1, <4>1 DEF Relies, Registered
      <4>2. CASE c.user # v
        BY <2>2, <2>4, <2>6, <3>1, <4>2 DEF Relies, Registered
      <4> QED BY <4>1, <4>2
    <3>4. c.kind = "update" =>
            /\ c.schedule \in used'
            /\ schedule'[c.schedule] # Null => schedule'[c.schedule].owner = c.user
      BY <2>1, <2>3, <2>6, <3>1 DEF Relies
    <3>5. c.kind = "unbind" /\ c.pc = "write" => References(c.notifier)' = {}
      BY <2>6, <3>2 DEF Relies
    <3> HIDE DEF c
    <3>6. Relies(c)'
      BY <2>6, <3>3, <3>4, <3>5 DEF Relies, c
    <3> QED BY <3>6 DEF c
  <2> QED BY <1>a, <2>1, <2>5, <2>6, OnlyRowsChange
<1>14. ASSUME NEW u \in User, RegisterUser(u)
       PROVE  RowsResolve' /\ CallsRely'
  <2>1. /\ role[u] = "new" /\ UNCHANGED <<schedule, notifier, used, call>>
        /\ \A v \in User : v # u => role'[v] = role[v]
    BY <1>14 DEF RegisterUser, Typed
  <2>2. \A s \in Schedule : schedule[s] # Null => schedule[s].owner \in User \ {u}
    <3>1. \A s \in Schedule : schedule[s] # Null =>
            schedule[s].owner \in User /\ Registered(schedule[s].owner)
      BY <1>a DEF Typed, ScheduleRow, RowsResolve
    <3> QED BY <2>1, <3>1 DEF Registered
  <2>3. RowsResolve'
    BY <1>a, <2>1, <2>2 DEF RowsResolve, NotifiersResolve, NotifierOf, Registered
  <2>4. ASSUME NEW g \in Handler, call[g] # Null, call'[g] = call[g], Relies(call[g])
        PROVE  Relies(call[g])'
    <3>1. call[g].kind \in {"create", "update"} => call[g].user \in User \ {u}
      BY <2>1, <2>4, KindOfCall DEF Creating, Editing, Relies
    <3> QED BY <2>1, <2>4, <3>1 DEF Relies, References, NotifierOf, Registered
  <2> QED BY <1>a, <2>1, <2>3, <2>4, OnlyRowsChange
<1>15. ASSUME NEW u \in User, NEW m \in Notifier, CreateNotifier(u, m)
       PROVE  RowsResolve' /\ CallsRely'
  <2>1. /\ m \notin used /\ notifier[m] = Null /\ UNCHANGED <<role, schedule, call>>
        /\ notifier' = [notifier EXCEPT ![m] = u] /\ used' = used \cup {m}
    BY <1>15, <1>a DEF CreateNotifier, RowsResolve
  <2>2. \A n, v : n \in NotifierId /\ v \in User /\ NotifierOf(n, v) => NotifierOf(n, v)'
    BY <2>1, AccountsAssumption DEF NotifierOf, NotifierId, Typed
  <2>3. RowsResolve'
    <3>1. NotifiersResolve'
      <4> SUFFICES ASSUME NEW s \in Schedule, schedule[s] # Null
                   PROVE  NotifierOf(schedule[s].alert_notifier_id, schedule[s].owner)'
        BY <2>1 DEF NotifiersResolve
      <4>1. schedule[s] \in ScheduleRow /\ NotifierOf(schedule[s].alert_notifier_id, schedule[s].owner)
        BY <1>a DEF Typed, RowsResolve, NotifiersResolve
      <4>2. schedule[s].alert_notifier_id \in NotifierId /\ schedule[s].owner \in User
        BY <4>1 DEF ScheduleRow
      <4> QED BY <2>1, <2>2, <4>1, <4>2
    <3>2. \A s \in Schedule : schedule'[s] # Null => s \in used' /\ Registered(schedule[s].owner)'
      BY <1>a, <2>1 DEF RowsResolve, Registered
    <3>3. \A n \in Notifier : notifier'[n] # Null => n \in used'
      BY <1>a, <2>1 DEF RowsResolve, Typed
    <3> QED BY <3>1, <3>2, <3>3 DEF RowsResolve
  <2>4. ASSUME NEW g \in Handler, call[g] # Null, call'[g] = call[g], Relies(call[g])
        PROVE  Relies(call[g])'
    <3> DEFINE c == call[g]
    <3>1. c.kind \in {"create", "update"} => c.user \in User /\ c.notifier \in NotifierId
      BY <2>4, KindOfCall DEF Creating, Editing
    <3>2. c.kind \in {"create", "update"} =>
            /\ role'[c.user] # "new"
            /\ c.pc = "write" /\ Registered(c.user)' => NotifierOf(c.notifier, c.user)'
      BY <2>1, <2>2, <2>4, <3>1 DEF Relies, Registered
    <3>3. /\ c.kind = "update" => /\ c.schedule \in used'
                                  /\ schedule'[c.schedule] # Null => schedule'[c.schedule].owner = c.user
          /\ c.kind = "unbind" /\ c.pc = "write" => References(c.notifier)' = {}
      BY <2>1, <2>4 DEF Relies, References
    <3> HIDE DEF c
    <3>4. Relies(c)'
      BY <2>4, <3>2, <3>3 DEF Relies, c
    <3> QED BY <3>4 DEF c
  <2> QED BY <1>a, <2>1, <2>3, <2>4, OnlyRowsChange
<1>16. CASE UNCHANGED accountVars
  BY <1>a, <1>16 DEF accountVars, RowsResolve, NotifiersResolve, NotifierOf, Registered, CallsRely, Relies,
     References
<1>17. NoNotifier \in Notifier \cup {NoNotifier} /\ "user" \in {"user", "admin"}
  OBVIOUS
<1> QED BY <1>1, <1>2, <1>3, <1>4, <1>5, <1>6, <1>7, <1>8, <1>9, <1>10, <1>11, <1>12, <1>13, <1>14,
           <1>15, <1>16, <1>17 DEF AccountsNext

\* If a notifier is not removed while a schedule is being saved, every schedule alerts
\* over a notifier that is there and belongs to the owner of the schedule
\* (NotifiersResolve), whoever deletes schedules, notifiers and users.
THEOREM NotifiersAlwaysResolve == SaveOrUnbind => (AccountsSpec => []NotifiersResolve)
<1> SUFFICES ASSUME SaveOrUnbind PROVE AccountsSpec => []NotifiersResolve
  OBVIOUS
<1>1. AccountsInit => Resolving
  BY DEF AccountsInit, Resolving, Separate, Unbinds, Saves, RowsResolve, NotifiersResolve, CallsRely
<1>2. Typed /\ Resolving /\ [AccountsNext]_accountVars => Resolving'
  BY StepResolving
<1>3. Resolving => NotifiersResolve
  BY DEF Resolving, RowsResolve
<1> QED BY <1>1, <1>2, <1>3, AccountsTypeCorrect, PTL DEF AccountsSpec
-------------------------------------------------------------------------------
(***************************************************************************)
(* Startup: no file is imported twice and the two names of a result agree, *)
(* for any old installation, any number of sites and results, and crashes  *)
(* at any place.                                                           *)
(***************************************************************************)
Names == Site \cup {""}
Urls == Url \cup {""}

\* The rows whose two names agree, or whose column is still empty.
ResultRow == {row \in [url: Urls, name: Names, profile_name: Names, first: Names] :
                row.profile_name \in {"", row.name}}

\* Every way of making a row or of changing one keeps that: the two repairs, the
\* naming of unnamed results, and renames, which change both names alike.
LEMMA RowAgrees ==
  ASSUME NEW url \in Urls, NEW name \in Names, NEW column \in {"", name}, NEW first \in Names
  PROVE  Row(url, name, column, first) \in SUBSET ResultRow
<1>1. column \in Names
  BY DEF Names
<1>2. [url |-> url, name |-> name, profile_name |-> column, first |-> first] \in ResultRow
  BY <1>1 DEF ResultRow
<1> QED BY <1>2 DEF Row

LEMMA RepairAgrees ==
  ASSUME NEW row \in ResultRow
  PROVE  Named(row) \in ResultRow /\ Copied(row) \in ResultRow
<1>1. Named(row) \in ResultRow
  <2>1. row.name = "" => row.profile_name = ""
    BY DEF ResultRow
  <2> QED BY <2>1 DEF Named, ResultRow
<1>2. Copied(row) \in ResultRow
  BY DEF Copied, ResultRow
<1> QED BY <1>1, <1>2

LEMMA NamingAgrees ==
  ASSUME NEW row \in ResultRow, row.name = "", NEW s \in Site
  PROVE  [row EXCEPT !.name = s] \in ResultRow
BY DEF ResultRow, Names

LEMMA RenameAgrees ==
  ASSUME NEW row \in ResultRow, NEW old \in Site, NEW new \in Site
  PROVE  [Renamed(row, old, new) EXCEPT !.first = IF @ = old THEN new ELSE @] \in ResultRow
<1>1. old # "" /\ old \in Names /\ new \in Names
  BY StartupAssumption DEF Names
<1> QED BY <1>1 DEF Renamed, ResultRow
----------------------------------------------------------------------------------
Agreeing == results \in [ResultId -> SUBSET ResultRow]

LEMMA InitAgreeing == StartupInit => Agreeing
BY DEF StartupInit, Agreeing

LEMMA StepAgreeing ==
  ASSUME StartupTypeOK, Agreeing, [StartupNext]_startupVars
  PROVE  Agreeing'
<1>1. ASSUME NEW kind \in {"empty", "files", "database"}, NEW version \in {"early", "old", "current"},
             NEW first \in Site \cup {""}, Install(kind, version, first)
      PROVE  Agreeing'
  <2>1. CASE kind = "database"
    <3>1. results' = [r \in ResultId |-> IF r \in File
               THEN Row(OldResults[r].url, OldResults[r].name, "", first) ELSE {}]
      BY <1>1, <2>1 DEF Install
    <3>2. \A r \in File : OldResults[r].url \in Urls /\ OldResults[r].name \in Names
      BY StartupAssumption DEF Urls, Names
    <3>3. \A r \in File : Row(OldResults[r].url, OldResults[r].name, "", first) \in SUBSET ResultRow
      BY <3>2, RowAgrees DEF Names
    <3> QED BY <3>1, <3>3 DEF Agreeing
  <2>2. CASE kind # "database"
    BY <1>1, <2>2 DEF Install, Agreeing
  <2> QED BY <2>1, <2>2
<1>2. CASE _migrate_schedule_results_profile_name
  BY <1>2, RepairAgrees DEF _migrate_schedule_results_profile_name, Agreeing
<1>3. CASE _backfill_redundant_columns
  BY <1>3, RepairAgrees DEF _backfill_redundant_columns, Agreeing
<1>4. CASE _backfill_profile_name
  <2>1. \A r \in ResultId : \A p \in results[r] \X Site :
          p[1].name = "" => [p[1] EXCEPT !.name = p[2]] \in ResultRow
    BY NamingAgrees DEF Agreeing
  <2>2. ASSUME NEW r \in ResultId
        PROVE  {[p[1] EXCEPT !.name = p[2]] :
                  p \in {q \in results[r] \X Site : q[1].name = "" /\ SitesAt(q[1].url) = {q[2]}}}
               \subseteq ResultRow
    BY <2>1
  <2>3. \A r \in ResultId : {row \in results[r] : row.name # ""} \subseteq ResultRow
    BY DEF Agreeing
  <2> QED BY <1>4, <2>2, <2>3 DEF _backfill_profile_name, Agreeing
<1>5. ASSUME NEW f \in File, NEW readable \in BOOLEAN, MigrateResult(f, readable)
      PROVE  Agreeing'
  <2>1. OldResults[f].url \in Urls /\ OldResults[f].name \in Names /\ "" \in Names
    BY StartupAssumption DEF Urls, Names
  <2>2. Row(OldResults[f].url, OldResults[f].name, OldResults[f].name, "") \in SUBSET ResultRow
    BY <2>1, RowAgrees
  <2> QED BY <1>5, <2>2 DEF MigrateResult, Agreeing
<1>6. ASSUME NEW r \in NewResult, NEW s \in Site, SaveNamedResult(r, s)
      PROVE  Agreeing'
  <2>1. sites[s] \in Urls /\ s \in Names /\ "" \in Names
    BY DEF Urls, Names, StartupTypeOK
  <2>2. Row(sites[s], s, s, "") \in SUBSET ResultRow
    BY <2>1, RowAgrees
  <2> QED BY <1>6, <2>2 DEF SaveNamedResult, Agreeing
<1>7. ASSUME NEW r \in ResultId, DeleteResult(r)
      PROVE  Agreeing'
  BY <1>7 DEF DeleteResult, Agreeing
<1>8. ASSUME NEW old \in Site, NEW new \in Site, RenameSite(old, new)
      PROVE  Agreeing'
  <2> DEFINE Moved(row) == [Renamed(row, old, new) EXCEPT !.first = IF @ = old THEN new ELSE @]
  <2>1. results' = [r \in ResultId |-> {Moved(row) : row \in results[r]}]
    BY <1>8 DEF RenameSite
  <2>2. \A row \in ResultRow : Moved(row) \in ResultRow
    BY RenameAgrees
  <2> HIDE DEF Moved
  <2> QED BY <2>1, <2>2 DEF Agreeing
<1>9. CASE UNCHANGED results
  BY <1>9 DEF Agreeing
<1>10. ASSUME \/ init_db \/ _migrate_schema \/ migrate \/ BackUp \/ CrashServer
              \/ \E s \in Site : MigrateProfile(s)
              \/ \E s \in Site, url \in Url \cup {""} : SaveSite(s, url)
              \/ UNCHANGED startupVars
       PROVE  UNCHANGED results
  BY <1>10 DEF init_db, _migrate_schema, migrate, BackUp, CrashServer, MigrateProfile, SaveSite, startupVars
<1> QED BY <1>1, <1>2, <1>3, <1>4, <1>5, <1>6, <1>7, <1>8, <1>9, <1>10 DEF StartupNext
----------------------------------------------------------------------------------
Numbers == users \in Nat /\ stored \in [File -> Nat]

LEMMA InitType == StartupInit => StartupTypeOK
<1> SUFFICES ASSUME StartupInit PROVE StartupTypeOK
  OBVIOUS
<1>1. users = 0 /\ stored = [f \in File |-> 0]
  BY DEF StartupInit
<1>2. Numbers
  BY <1>1 DEF Numbers
<1> QED BY <1>2 DEF StartupInit, StartupTypeOK, Numbers

\* The counters change in three places.
LEMMA NumbersChange ==
  ASSUME StartupTypeOK, [StartupNext]_startupVars
  PROVE  \/ UNCHANGED <<users, stored>>
         \/ disk = "unknown" /\ users' = 1 /\ UNCHANGED <<boot, todo, stored>>
         \/ boot = "check" /\ ~HasData /\ users' = users + 1 /\ UNCHANGED stored
         \/ \E f \in File : /\ boot = "migrate" /\ f \in todo /\ UNCHANGED <<boot, users>>
                           /\ todo' = todo \ {f} /\ stored' = [stored EXCEPT ![f] = @ + 1]
BY Zenon DEF StartupNext, startupVars, Install, init_db, _migrate_schedule_results_profile_name,
   _backfill_redundant_columns, _migrate_schema, _backfill_profile_name, migrate, BackUp,
   CrashServer, MigrateProfile, MigrateResult, SaveNamedResult, DeleteResult, SaveSite, RenameSite

LEMMA StepNumbers ==
  ASSUME StartupTypeOK, [StartupNext]_startupVars
  PROVE  Numbers'
<1>1. Numbers
  BY DEF Numbers, StartupTypeOK
<1> QED BY <1>1, NumbersChange DEF Numbers

\* The variables other than results, whose type is part of Agreeing.
LEMMA StepType ==
  ASSUME StartupTypeOK, Agreeing, [StartupNext]_startupVars
  PROVE  StartupTypeOK'
<1>1. results' \in [ResultId -> SUBSET [url: Url \cup {""}, name: Site \cup {""},
                                   profile_name: Site \cup {""}, first: Site \cup {""}]]
  <2>1. Agreeing'
    BY StepAgreeing
  <2>2. ResultRow \subseteq [url: Url \cup {""}, name: Site \cup {""},
                             profile_name: Site \cup {""}, first: Site \cup {""}]
    BY DEF ResultRow, Names, Urls
  <2> QED BY <2>1, <2>2 DEF Agreeing
<1> DEFINE Rest == /\ disk \in {"unknown", "empty", "files", "database"}
                   /\ schema \in {"none", "early", "old", "current"}
                   /\ boot \in {"off", "names", "columns", "schema", "backfill", "check", "migrate", "up"}
                   /\ sites \in [Site -> Url \cup {""}] /\ backup \in BOOLEAN
                   /\ todo \subseteq Site \cup File
<1>2. Rest
  BY DEF StartupTypeOK
<1>3. Rest'
  <2> HIDE DEF Rest
  <2>1. ASSUME NEW kind \in {"empty", "files", "database"}, NEW version \in {"early", "old", "current"},
               NEW first \in Site \cup {""}, Install(kind, version, first)
        PROVE  Rest'
    BY <1>2, <2>1, StartupAssumption DEF Rest, Install
  <2>2. CASE init_db
    BY <1>2, <2>2 DEF Rest, init_db
  <2>3. CASE _migrate_schedule_results_profile_name \/ _backfill_redundant_columns
             \/ _backfill_profile_name \/ _migrate_schema
    BY <1>2, <2>3 DEF Rest, _migrate_schedule_results_profile_name, _backfill_redundant_columns,
                      _backfill_profile_name, _migrate_schema
  <2>4. CASE migrate
    BY <1>2, <2>4 DEF Rest, migrate
  <2>5. CASE BackUp \/ CrashServer
    BY <1>2, <2>5 DEF Rest, BackUp, CrashServer
  <2>6. ASSUME NEW s \in Site, MigrateProfile(s)
        PROVE  Rest'
    BY <1>2, <2>6, StartupAssumption DEF Rest, MigrateProfile
  <2>7. ASSUME NEW f \in File, NEW readable \in BOOLEAN, MigrateResult(f, readable)
        PROVE  Rest'
    BY <1>2, <2>7 DEF Rest, MigrateResult
  <2>8. CASE \/ \E r \in NewResult, s \in Site : SaveNamedResult(r, s)
             \/ \E r \in ResultId : DeleteResult(r)
    BY <1>2, <2>8 DEF Rest, SaveNamedResult, DeleteResult
  <2>9. ASSUME NEW s \in Site, NEW url \in Url \cup {""}, SaveSite(s, url)
        PROVE  Rest'
    BY <1>2, <2>9 DEF Rest, SaveSite
  <2>10. ASSUME NEW old \in Site, NEW new \in Site, RenameSite(old, new)
         PROVE  Rest'
    BY <1>2, <2>10 DEF Rest, RenameSite
  <2>11. CASE UNCHANGED startupVars
    BY <1>2, <2>11 DEF Rest, startupVars
  <2> QED BY <2>1, <2>2, <2>3, <2>4, <2>5, <2>6, <2>7, <2>8, <2>9, <2>10, <2>11 DEF StartupNext
<1>4. Numbers'
  BY StepNumbers
<1> QED BY <1>1, <1>3, <1>4 DEF StartupTypeOK, Numbers

\* The variables keep their types, for any old installation.
THEOREM StartupTypeCorrect == StartupSpec => [](StartupTypeOK /\ Agreeing)
<1>1. StartupInit => StartupTypeOK /\ Agreeing
  BY InitType, InitAgreeing
<1>2. StartupTypeOK /\ Agreeing /\ [StartupNext]_startupVars => (StartupTypeOK /\ Agreeing)'
  BY StepType, StepAgreeing
<1> QED BY <1>1, <1>2, PTL DEF StartupSpec

\* The two names of a result agree or the column waits for the next start (NamesAgree),
\* through renames, repairs and crashes.
THEOREM NamesAlwaysAgree == StartupSpec => []NamesAgree
<1>1. Agreeing => NamesAgree
  BY DEF Agreeing, NamesAgree, ResultRow
<1> QED BY <1>1, StartupTypeCorrect, PTL
----------------------------------------------------------------------------------
\* MigratedOnce is inductive with what guards it: before the first user there is no
\* migration and no result of a file, and a file that is still to do is not stored.
Once ==
  /\ users = 0 => boot # "migrate" /\ \A f \in File : stored[f] = 0
  /\ \A f \in File : stored[f] <= 1 /\ (f \in todo => stored[f] = 0)

LEMMA InitOnce == StartupInit => Once
<1> SUFFICES ASSUME StartupInit PROVE Once
  OBVIOUS
<1>1. users = 0 /\ stored = [f \in File |-> 0] /\ todo = {} /\ boot = "off"
  BY DEF StartupInit
<1> QED BY <1>1 DEF Once

\* What is to be done is decided when there is no user, and becomes less from then on.
LEMMA TodoShrinks ==
  ASSUME [StartupNext]_startupVars
  PROVE  \/ todo' \subseteq todo /\ (boot' = "migrate" => boot = "migrate")
         \/ boot = "check" /\ ~HasData /\ users' = users + 1
BY Zenon DEF StartupNext, startupVars, Install, init_db, _migrate_schedule_results_profile_name,
   _backfill_redundant_columns, _migrate_schema, _backfill_profile_name, migrate, BackUp,
   CrashServer, MigrateProfile, MigrateResult, SaveNamedResult, DeleteResult, SaveSite, RenameSite

LEMMA StepOnce ==
  ASSUME StartupTypeOK, Once, [StartupNext]_startupVars
  PROVE  Once'
<1>1. users \in Nat /\ stored \in [File -> Nat]
  BY DEF StartupTypeOK
<1>2. CASE UNCHANGED <<users, stored>>
  <2>1. todo' \subseteq todo /\ (boot' = "migrate" => boot = "migrate")
    BY <1>1, <1>2, TodoShrinks
  <2> QED BY <1>1, <1>2, <2>1 DEF Once
<1>3. CASE disk = "unknown" /\ users' = 1 /\ UNCHANGED <<boot, todo, stored>>
  BY <1>1, <1>3 DEF Once
<1>4. CASE boot = "check" /\ ~HasData /\ users' = users + 1 /\ UNCHANGED stored
  <2>1. users = 0 /\ users' # 0
    BY <1>1, <1>4 DEF HasData
  <2> QED BY <1>1, <1>4, <2>1 DEF Once
<1>5. ASSUME NEW f \in File, boot = "migrate", f \in todo, UNCHANGED <<boot, users>>,
             todo' = todo \ {f}, stored' = [stored EXCEPT ![f] = @ + 1]
      PROVE  Once'
  <2>1. users # 0 /\ stored[f] = 0
    BY <1>1, <1>5 DEF Once
  <2> QED BY <1>1, <1>5, <2>1 DEF Once
<1> QED BY <1>2, <1>3, <1>4, <1>5, NumbersChange

\* However often and wherever the first start crashes, no file is imported as two
\* results (MigratedOnce).
THEOREM FilesMigratedOnce == StartupSpec => []MigratedOnce
<1>1. StartupInit => Once
  BY InitOnce
<1>2. StartupTypeOK /\ Once /\ [StartupNext]_startupVars => Once'
  BY StepOnce
<1>3. Once => MigratedOnce
  BY DEF Once, MigratedOnce
<1> QED BY <1>1, <1>2, <1>3, StartupTypeCorrect, PTL DEF StartupSpec
===============================================================================
