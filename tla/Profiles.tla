-------------------------------- MODULE Profiles --------------------------------
(***************************************************************************)
(* The profiles (sites) of one user: the handlers of app/server.py that    *)
(* save, edit, switch, rename and delete them and the one that saves the   *)
(* settings, over the statements of app/db.py.  What a handler reads is    *)
(* not protected until it writes: a SELECT opens no transaction in SQLite  *)
(* and no lock in PostgreSQL, so any other request may come in between.    *)
(***************************************************************************)
EXTENDS Handlers

CONSTANTS Name,          \* names of profiles
          Key,           \* API keys that users type, each for one site
          ProfilesApart  \* pairs of kinds of requests that do not overlap

NoKey == "no key"
ProfileRow == [key: Key \cup {NoKey}, is_active: BOOLEAN]

ASSUME ProfilesAssumption ==
  /\ IsFiniteSet(Name) /\ Name # {}
  /\ Null \notin Name \cup ProfileRow /\ NoKey \notin Key
  /\ Symmetric(ProfilesApart)

VARIABLES
  profile,     \* the table: per name Null, or the row's key and is_active
  request,     \* handlers between two of their statements
  home         \* history: the site for which a key was typed, under its present name

profileVars == <<profile, request, home>>

ProfilesTypeOK ==
  /\ profile \in [Name -> ProfileRow \cup {Null}]
  /\ home \in [Key -> Name \cup {Null}]
  /\ \A h \in InFlight(request) :
       /\ request[h].kind \in {"save", "edit", "settings", "switch", "rename"}
       /\ request[h].pc \in {"read", "write"}
       /\ request[h].name \in Name \cup {Null}
---------------------------------------------------------------------------------
Exists(n) == profile[n] # Null
Active == {n \in Name : Exists(n) /\ profile[n].is_active}

\* get_active_profile: the first row that says it is active.  SQLite finds the rows
\* through the index on (user_id, name), in a fixed order.
get_active_profile == IF Active = {} THEN Null ELSE CHOOSE n \in Active : TRUE

\* Mutant: the key of the active profile is borrowed if the profile has none.
KeyOfOrActive(n) ==
  IF n # Null /\ Exists(n) THEN profile[n].key
  ELSE IF Active # {} THEN profile[get_active_profile].key ELSE NoKey

\* _resolve_profile_api_key for "keep" and for the masked key of old clients.
KeyOf(n) == IF n # Null /\ Exists(n) THEN profile[n].key ELSE NoKey

Deactivated(table) ==
  [n \in Name |-> IF table[n] = Null THEN Null ELSE [table[n] EXCEPT !.is_active = FALSE]]

\* upsert_profile.  The row it writes is active whatever set_active says.
upsert_profile(n, key, set_active) ==
  [(IF set_active THEN Deactivated(profile) ELSE profile)
     EXCEPT ![n] = [key |-> key, is_active |-> TRUE]]

May(kind) == MayBegin(request, kind, ProfilesApart)
ReadAs(h, fields) == request[h] = Null /\ request' = [request EXCEPT ![h] = fields]
ToWrite(h, kind) == request[h] # Null /\ request[h].kind = kind /\ request[h].pc = "write"
Answered(h) == request' = [request EXCEPT ![h] = Null]

Fresh(k) == home[k] = Null
---------------------------------------------------------------------------------
\* save_profile (set_active) and update_profile with a new key, or without one.
SaveTyped(kind, n, k, set_active) ==
  /\ May(kind) /\ Fresh(k)
  /\ profile' = upsert_profile(n, k, set_active)
  /\ home' = [home EXCEPT ![k] = n]
  /\ UNCHANGED request

SaveCleared(kind, n, set_active) ==
  /\ May(kind)
  /\ profile' = upsert_profile(n, NoKey, set_active)
  /\ UNCHANGED <<request, home>>

\* ... keeping the key: it is read first, ...
SaveKept(h, kind, n, set_active) ==
  /\ May(kind)
  /\ ReadAs(h, [kind |-> kind, pc |-> "write", name |-> n, key |-> KeyOf(n), set_active |-> set_active])
  /\ UNCHANGED <<profile, home>>

\* update_config with the masked key: that of the active profile is read, ...
SettingsKept(h) ==
  /\ May("settings")
  /\ ReadAs(h, [kind |-> "settings", pc |-> "read", name |-> Null,
                key |-> KeyOf(get_active_profile), set_active |-> FALSE])
  /\ UNCHANGED <<profile, home>>

\* ... or a key is typed for it; the settings are saved, ...
SettingsTyped(h, k) ==
  /\ May("settings") /\ Fresh(k) /\ Active # {}
  /\ home' = [home EXCEPT ![k] = get_active_profile]
  /\ ReadAs(h, [kind |-> "settings", pc |-> "read", name |-> Null, key |-> k, set_active |-> FALSE])
  /\ UNCHANGED profile

\* ... and the active profile is read again, to be written with that key.
SettingsRead(h) ==
  /\ request[h] # Null /\ request[h].pc = "read"
  /\ request' = [request EXCEPT ![h] =
       IF Active = {} THEN Null ELSE [@ EXCEPT !.pc = "write", !.name = get_active_profile]]
  /\ UNCHANGED <<profile, home>>

\* The row is written, whether or not it is still there.
WriteProfile(h) ==
  /\ \E kind \in {"save", "edit", "settings"} : ToWrite(h, kind)
  /\ profile' = upsert_profile(request[h].name, request[h].key, request[h].set_active)
  /\ Answered(h) /\ UNCHANGED home

\* switch_active_profile looks the profile up, ...
SwitchProfile(h, n) ==
  /\ May("switch") /\ Exists(n)
  /\ ReadAs(h, [kind |-> "switch", pc |-> "write", name |-> n])
  /\ UNCHANGED <<profile, home>>

\* ... and activates it, or none if it is gone by now.
Activate(h) ==
  /\ ToWrite(h, "switch")
  /\ LET n == request[h].name
     IN profile' = IF Exists(n) THEN [Deactivated(profile) EXCEPT ![n].is_active = TRUE]
                   ELSE Deactivated(profile)
  /\ Answered(h) /\ UNCHANGED home

\* rename_profile looks both names up, ...
RenameProfile(h, old, new) ==
  /\ May("rename") /\ Exists(old) /\ ~Exists(new)
  /\ ReadAs(h, [kind |-> "rename", pc |-> "write", name |-> old, new |-> new])
  /\ UNCHANGED <<profile, home>>

\* ... and moves the row; it fails if the new name has been taken (UNIQUE(user_id, name)).
MoveProfile(h) ==
  /\ ToWrite(h, "rename")
  /\ LET old == request[h].name
         new == request[h].new
     IN IF Exists(old) /\ ~Exists(new)
        THEN /\ profile' = [profile EXCEPT ![new] = profile[old], ![old] = Null]
             /\ home' = [k \in Key |-> IF home[k] = old THEN new ELSE home[k]]
        ELSE UNCHANGED <<profile, home>>
  /\ Answered(h)

DeleteProfile(n) ==
  /\ May("delete") /\ Exists(n)
  /\ profile' = [profile EXCEPT ![n] = Null]
  /\ UNCHANGED <<request, home>>

ProfilesInit ==
  /\ profile = [n \in Name |-> Null]
  /\ request = [h \in Handler |-> Null]
  /\ home = [k \in Key |-> Null]

ProfilesNext ==
  \/ \E n \in Name, set_active \in BOOLEAN, kind \in {"save", "edit"} :
       /\ kind = "save" => set_active
       /\ \/ \E k \in Key : SaveTyped(kind, n, k, set_active)
          \/ SaveCleared(kind, n, set_active)
          \/ \E h \in Handler : SaveKept(h, kind, n, set_active)
  \/ \E h \in Handler :
       \/ SettingsKept(h) \/ SettingsRead(h) \/ WriteProfile(h) \/ Activate(h) \/ MoveProfile(h)
       \/ \E k \in Key : SettingsTyped(h, k)
       \/ \E n \in Name : SwitchProfile(h, n)
       \/ \E old, new \in Name : RenameProfile(h, old, new)
  \/ \E n \in Name : DeleteProfile(n)

ProfilesSpec == ProfilesInit /\ [][ProfilesNext]_profileVars
---------------------------------------------------------------------------------
\* server.py:323 and 338: the key of one site is never stored for another, not even
\* through a key that was read before other requests changed the profiles; provided that
\* no rename overlaps with a save, and nothing with the saving of settings.
KeysStayHome ==
  \A n \in Name : Exists(n) /\ profile[n].key # NoKey => home[profile[n].key] = n
=================================================================================
