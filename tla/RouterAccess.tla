----------------------------- MODULE RouterAccess -----------------------------
(***************************************************************************)
(* How one zone's router learns who may go online.  Either from the script *)
(* it imports every minute and from logins pushed straight to it           *)
(* (services/mikrotik_script.go, services/mikrotik.go), or from the tables *)
(* FreeRADIUS reads (services/radius.go, handlers/platform_radius.go).  A  *)
(* behaviour is about one of the two ways.  Whose plan it is, and why it   *)
(* changes, is in CustomerAccount and DeviceLogin: here a login has a      *)
(* status and the number of its expiry date.  Speeds, profiles, sessions   *)
(* and the router's own clock are left out.  A unit of time is a minute:   *)
(* the router asks for a script each minute, or is silent for longer.      *)
(***************************************************************************)
EXTENDS Integers

CONSTANTS
  Logins,      \* devices with a plan in this zone
  Ways,        \* those checked
  Window,      \* minutes in syncWindow
  MaxLost,     \* bound: imports that fail in a row
  Rec,         \* the RADIUS reconciler's goroutine
  Admins,      \* platform requests
  Payers,      \* goroutines started by payments
  MaxDates,    \* bound
  MaxPushes,   \* bound: a login is pushed when its device asks for it
  MaxSwitches, \* bound
  MaxCrashes   \* bound

\* A change can be made after the script is written and before it is stamped.
ASSUME AccessAssumption ==
  /\ Ways \subseteq {"script", "radius"} /\ Window \in Nat /\ MaxLost \in Nat
  /\ MaxLost + 2 <= Window /\ Rec \notin Admins \cup Payers /\ Admins \cap Payers = {}
  /\ MaxDates \in Nat /\ MaxPushes \in Nat /\ MaxSwitches \in Nat /\ MaxCrashes \in Nat

Workers == {Rec} \cup Admins \cup Payers

VARIABLES
  way,
  login,    \* hotspot_credentials, or the customers
  over,     \* the last expiry date that is past
  age,      \* minutes from the login's updated_at to last_sync_at
  user,     \* the router's /ip hotspot user: expiry, or 0
  push,     \* logins on their way to the router
  script,   \* the script being written or imported
  lost,     \* imports that failed since one succeeded
  missed,   \* ghost: logins whose last change no later script repairs
  mode,     \* the zone's auth_mode
  row,      \* radcheck, radreply and the hash: expiry, or 0
  work,     \* what each goroutine is at
  late,     \* ghost: rows were there or being written as the zone left RADIUS
  dates, pushes, switches, crashes

vars == <<way, login, over, age, user, push, script, lost, missed, mode, row, work, late,
          dates, pushes, switches, crashes>>

Plans == <<way, login, over, age, dates>>
Router == <<user, push, script, lost, pushes>>
Radius == <<mode, row, work, late, switches>>

-----------------------------------------------------------------------------
Dates == 0..MaxDates
Nobody == [l \in Logins |-> 0]
NoPush == [until |-> 0, at |-> "none"]
Lines == {"set", "add", "remove", "none"}
NoLogin == [status |-> "none", until |-> 0]
NoScript == [at |-> "none", line |-> [l \in Logins |-> "none"], was |-> [l \in Logins |-> NoLogin], last |-> {}]
Free == [at |-> "idle", want |-> Nobody, have |-> Nobody, who |-> {}]

\* status = 'active' AND expires_at > now.
PaidUp(l) == login[l].status = "active" /\ login[l].until > over
Should(l) == IF PaidUp(l) THEN login[l].until ELSE 0

\* updated_at > last_sync_at - syncWindow, which is before now - syncWindow.
Recent(l) == age[l] < Window

\* GenerateSyncScript: an active login is rewritten if it changed and added if
\* missing; one that is gone is removed.
Line(l) == IF PaidUp(l) THEN (IF Recent(l) THEN "set" ELSE "add")
           ELSE IF Recent(l) /\ login[l].status # "none" THEN "remove" ELSE "none"

Imported(l) ==
  CASE script.line[l] = "set" -> script.was[l].until
    [] script.line[l] = "add" -> IF user[l] = 0 THEN script.was[l].until ELSE user[l]
    [] script.line[l] = "remove" -> 0
    [] OTHER -> user[l]

\* ActiveCredentialsForMAC, and a login just granted.
Pushable(l) == PaidUp(l)

-----------------------------------------------------------------------------
Init ==
  /\ way \in Ways
  /\ login = [l \in Logins |-> NoLogin] /\ over = 0
  /\ age = [l \in Logins |-> Window] /\ user = Nobody /\ push = [l \in Logins |-> NoPush]
  /\ script = NoScript /\ lost = 0 /\ missed = {}
  /\ mode \in {"api", "radius"} /\ row = Nobody /\ work = [w \in Workers |-> Free] /\ late = FALSE
  /\ dates = 0 /\ pushes = 0 /\ switches = 0 /\ crashes = 0

\* A login is given, or a plan paid, until a later date.
Grant(l) ==
  /\ dates < MaxDates /\ dates' = dates + 1
  /\ login' = [login EXCEPT ![l] = [status |-> "active", until |-> dates + 1]]
  /\ age' = [age EXCEPT ![l] = 0] /\ missed' = missed \ {l}
  /\ UNCHANGED <<way, over, Router, Radius, crashes>>

\* A login is retired or its time found to be up; a customer is suspended.
Retire(l) ==
  /\ login[l].status = "active" /\ login' = [login EXCEPT ![l].status = "gone"]
  /\ age' = [age EXCEPT ![l] = 0] /\ missed' = missed \ {l}
  /\ UNCHANGED <<way, over, dates, Router, Radius, crashes>>

TimeUp(l) == ~PaidUp(l) /\ Retire(l)

Lapse ==
  /\ over < dates /\ over' = over + 1
  /\ UNCHANGED <<way, login, age, dates, missed, Router, Radius, crashes>>

-----------------------------------------------------------------------------
\* PublicZoneSync: the script is written from the logins ...
Generate ==
  /\ script.at = "none"
  /\ script' = [at |-> "made", line |-> [l \in Logins |-> Line(l)], was |-> login, last |-> {}]
  /\ UNCHANGED <<Plans, user, push, lost, pushes, missed, Radius, crashes>>

\* ... then last_sync_at is set and the script sent: a minute after the last
\* one, or after a silence in which a change became too old for the next.
Stamp ==
  /\ script.at = "made"
  /\ \E quiet \in SUBSET {l \in Logins : script.was[l] = login[l] /\ Recent(l)} :
       /\ script' = [script EXCEPT !.at = "sent", !.last = quiet]
       /\ age' = [l \in Logins |-> IF script.was[l] # login[l] THEN 0
                                   ELSE IF Recent(l) /\ l \notin quiet THEN age[l] + 1 ELSE Window]
  /\ UNCHANGED <<way, login, over, dates, user, push, lost, pushes, missed, Radius, crashes>>

\* The router runs it, ...
Import ==
  /\ script.at = "sent" /\ script' = NoScript /\ lost' = 0
  /\ user' = [l \in Logins |-> Imported(l)]
  /\ UNCHANGED <<Plans, push, pushes, missed, Radius, crashes>>

\* ... or the transfer or the import fails.
Lose ==
  /\ script.at = "sent" /\ lost < MaxLost /\ script' = NoScript /\ lost' = lost + 1
  /\ missed' = missed \cup script.last
  /\ UNCHANGED <<Plans, user, push, pushes, Radius, crashes>>

\* pushLoginAsync and WhitelistMAC call PushCredential: the login as it is now ...
PushStart(l) ==
  /\ push[l] = NoPush /\ Pushable(l) /\ pushes < MaxPushes /\ pushes' = pushes + 1
  /\ push' = [push EXCEPT ![l] = [until |-> login[l].until, at |-> "remove"]]
  /\ UNCHANGED <<Plans, user, script, lost, missed, Radius, crashes>>

\* ... replaces the one on the router (an error of the removal is ignored) ...
PushRemove(l) ==
  /\ push[l].at = "remove" /\ user' \in {user, [user EXCEPT ![l] = 0]}
  /\ push' = [push EXCEPT ![l].at = "add"]
  /\ UNCHANGED <<Plans, script, lost, pushes, missed, Radius, crashes>>

\* ... however long that takes, for a connection has no deadline: too few
\* scripts with a change made meanwhile may follow.
PushAdd(l) ==
  /\ push[l].at = "add" /\ user' = [user EXCEPT ![l] = push[l].until]
  /\ push' = [push EXCEPT ![l] = NoPush]
  /\ missed' = missed \cup {m \in {l} : push[l].until # Should(l) /\ age[l] + MaxLost >= Window}
  /\ UNCHANGED <<Plans, script, lost, pushes, Radius, crashes>>

\* A call fails, before or in between.
PushFail(l) ==
  /\ push[l] # NoPush /\ push' = [push EXCEPT ![l] = NoPush]
  /\ UNCHANGED <<Plans, user, script, lost, pushes, missed, Radius, crashes>>

-----------------------------------------------------------------------------
At(w, step) == work[w].at = step
Busy(w) == ~At(w, "idle")

\* Mutant: a payment is synced in any zone.
OnRadiusAlways == TRUE
OnRadius == mode = "radius"

\* Mutant: the hash leaves out the expiry date.
SameUser(want, have) == want # 0 /\ have # 0
\* The row's hash is that of the wanted user.
Same(want, have) == want = have

\* About to write rows, from what was read or is to be read.
Syncing(w) == work[w].at \in {"customers", "accounts", "write", "customer"}

\* Reconcile takes the zones that are on RADIUS.
Pick ==
  /\ ~Busy(Rec) /\ mode = "radius" /\ work' = [work EXCEPT ![Rec].at = "customers"]
  /\ UNCHANGED <<Plans, Router, missed, mode, row, late, switches, crashes>>

\* SyncZone, which does not look at the mode, reads the customers, ...
ReadCustomers(w) ==
  /\ At(w, "customers")
  /\ work' = [work EXCEPT ![w].at = "accounts", ![w].want = [l \in Logins |-> Should(l)]]
  /\ UNCHANGED <<Plans, Router, missed, mode, row, late, switches, crashes>>

\* ... then the accounts, ...
ReadAccounts(w) ==
  /\ At(w, "accounts") /\ work' = [work EXCEPT ![w].at = "write", ![w].have = row]
  /\ UNCHANGED <<Plans, Router, missed, mode, row, late, switches, crashes>>

\* ... and writes those that differ; those not wanted lose their rows.
WriteZone(w) ==
  /\ At(w, "write") /\ work' = [work EXCEPT ![w] = Free]
  /\ row' = [l \in Logins |-> IF Same(work[w].want[l], work[w].have[l]) THEN row[l] ELSE work[w].want[l]]
  /\ UNCHANGED <<Plans, Router, missed, mode, late, switches, crashes>>

\* SyncCustomer after a payment reads the customer and the zone ...
PaySync(w, l) ==
  /\ ~Busy(w) /\ OnRadius
  /\ work' = [work EXCEPT ![w] = [Free EXCEPT !.at = "customer", !.who = {l}, !.want[l] = Should(l)]]
  /\ UNCHANGED <<Plans, Router, missed, mode, row, late, switches, crashes>>

\* ... and replaces the customer's rows.
WriteCustomer(w) ==
  /\ At(w, "customer") /\ work' = [work EXCEPT ![w] = Free]
  /\ row' = [l \in Logins |-> IF l \in work[w].who THEN work[w].want[l] ELSE row[l]]
  /\ UNCHANGED <<Plans, Router, missed, mode, late, switches, crashes>>

\* PlatformZoneRadiusSet, on: the mode, unless its write fails, then SyncZone.
Enable(a) ==
  /\ ~Busy(a) /\ switches < MaxSwitches /\ switches' = switches + 1
  /\ mode' \in {mode, "radius"} /\ late' = (mode' = "api")
  /\ work' = [work EXCEPT ![a].at = "customers"]
  /\ UNCHANGED <<Plans, Router, missed, row, crashes>>

\* Off: ClearZone reads the accounts ...
Disable(a) ==
  /\ ~Busy(a) /\ switches < MaxSwitches /\ switches' = switches + 1
  /\ work' = [work EXCEPT ![a] = [Free EXCEPT !.at = "clear", !.have = row]]
  /\ UNCHANGED <<Plans, Router, missed, mode, row, late, crashes>>

\* ... removes their rows, ...
ClearZone(a) ==
  /\ At(a, "clear") /\ work' = [work EXCEPT ![a] = [Free EXCEPT !.at = "leave"]]
  /\ row' = [l \in Logins |-> IF work[a].have[l] # 0 THEN 0 ELSE row[l]]
  /\ UNCHANGED <<Plans, Router, missed, mode, late, switches, crashes>>

\* ... and only then the mode changes.
Leave(a) ==
  /\ At(a, "leave") /\ work' = [work EXCEPT ![a] = Free] /\ mode' = "api"
  /\ late' = (row # Nobody \/ \E w \in Workers : Syncing(w))
  /\ UNCHANGED <<Plans, Router, missed, row, switches, crashes>>

\* A transaction fails: a sync ends there, a zone leaves all the same.
Undone(w) ==
  /\ work[w].at \in {"write", "customer", "clear"}
  /\ work' = [work EXCEPT ![w] = IF At(w, "clear") THEN [Free EXCEPT !.at = "leave"] ELSE Free]
  /\ UNCHANGED <<Plans, Router, missed, mode, row, late, switches, crashes>>

\* The server dies: what was on its way is gone.
Crash ==
  /\ crashes < MaxCrashes /\ crashes' = crashes + 1
  /\ push' = [l \in Logins |-> NoPush] /\ work' = [w \in Workers |-> Free]
  /\ script' = IF script.at = "made" THEN NoScript ELSE script
  /\ UNCHANGED <<Plans, user, lost, missed, pushes, mode, row, late, switches>>

-----------------------------------------------------------------------------
Pushing(l) == PushRemove(l) \/ PushAdd(l) \/ PushFail(l)
SyncZone(w) == ReadCustomers(w) \/ ReadAccounts(w) \/ WriteZone(w)

ScriptStep ==
  /\ way = "script"
  /\ \/ Generate \/ Stamp \/ Import \/ Lose
     \/ \E l \in Logins : PushStart(l) \/ Pushing(l)

Switching(a) == ClearZone(a) \/ Leave(a)

RadiusStep ==
  /\ way = "radius"
  /\ \/ Pick \/ (\E w \in {Rec} \cup Admins : SyncZone(w)) \/ (\E w \in Workers : Undone(w))
     \/ \E w \in Payers : WriteCustomer(w) \/ \E l \in Logins : PaySync(w, l)
     \/ \E a \in Admins : Enable(a) \/ Disable(a) \/ Switching(a)

Next ==
  \/ \E l \in Logins : Grant(l) \/ Retire(l)
  \/ Lapse \/ ScriptStep \/ RadiusStep \/ Crash

Spec == Init /\ [][Next]_vars

\* The watchdog, the reconciler and the router's scheduler tick, and not every
\* round of the reconciler fails.  No push has to end.
FairSpec ==
  /\ Spec
  /\ WF_vars(way = "script" /\ (Generate \/ Stamp \/ Import \/ Lose))
  /\ WF_vars(way = "radius" /\ (Pick \/ SyncZone(Rec) \/ Undone(Rec)))
  /\ SF_vars(way = "radius" /\ WriteZone(Rec))
  /\ \A a \in Admins : WF_vars(way = "radius" /\ (SyncZone(a) \/ Switching(a) \/ Undone(a)))
  /\ \A w \in Payers : WF_vars(way = "radius" /\ (WriteCustomer(w) \/ Undone(w)))
  /\ \A l \in Logins : WF_vars(TimeUp(l))

-----------------------------------------------------------------------------
\* The tables, the script and the goroutines have the values the code gives them.
TypeOK ==
  /\ \A l \in Logins : login[l].status \in {"none", "active", "gone"} /\ login[l].until \in Dates
  /\ over \in 0..dates /\ age \in [Logins -> 0..Window]
  /\ user \in [Logins -> Dates] /\ row \in [Logins -> Dates]
  /\ \A l \in Logins : push[l] = NoPush \/ (push[l].at \in {"remove", "add"} /\ push[l].until \in 1..MaxDates)
  /\ script.at \in {"none", "made", "sent"} /\ script.line \in [Logins -> Lines] /\ script.last \subseteq Logins
  /\ mode \in {"api", "radius"} /\ lost \in 0..MaxLost /\ missed \subseteq Logins
  /\ \A w \in Workers : work[w].at \in {"idle", "customers", "accounts", "write", "customer", "clear", "leave"}

\* Outside RADIUS no rows appear but those that were there, or on their way,
\* as the zone last left it or was put on it by a request whose write of the
\* mode failed (PlatformZoneRadiusSet, ClearZone, SyncZone, SyncCustomer).
LeftIsEmpty == mode = "api" /\ ~late => row = Nobody

\* What the router admits settles on who is paid up, through scripts lost,
\* pushes overtaken by a change, syncs from older reads, failed transactions
\* and a crash (GenerateSyncScript, PushCredential, SyncZone, SyncCustomer).
\* Left out is a change that was too old for another script when the one
\* after a silence of the router was lost, or a push of the login before it
\* ended.
AccessFollows ==
  /\ <>[](way = "script") => <>[](\A l \in Logins \ missed : user[l] = Should(l))
  /\ <>[](way = "radius" /\ mode = "radius") => <>[](\A l \in Logins : row[l] = Should(l))
=============================================================================
