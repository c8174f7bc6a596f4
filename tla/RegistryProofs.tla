--------------------------- MODULE RegistryProofs ---------------------------
(***************************************************************************)
(* Proofs that the files under .tuya-data keep what the commands saved and *)
(* whose it is, whatever the number of processes, users and crashes.       *)
(***************************************************************************)
EXTENDS Registry, EndpointsProofs, TLAPS

(* What a process holds depends on where it is: its user while it works    *)
(* on one, an account while it saves one, a registry it has read while it  *)
(* writes one.                                                             *)

UserSteps == {"save", "fill user", "fill gone", "delete", "read", "truncate", "fill"}
SaveSteps == {"save", "fill user", "fill gone"}

RecInv(r) ==
  /\ r.at \in {"login", "token", "poll"} => r.user \in WebUsers /\ r.cmd = "auth"
  /\ r.at \in UserSteps => r.user \in Users
  /\ r.at \in SaveSteps => r.session \in Users /\ (r.cmd = "auth" \/ r.user \notin WebUsers)
  /\ r.at \in {"truncate", "fill"} => r.snap \in Registries
  /\ r.at = "next" => r.cmd = "refresh"
  /\ r.at = "delete" => r.cmd = "remove"
  /\ r.cmd = "remove" => r.list = <<>>

ProcInv == \A p \in Procs : RecInv(proc[p])
Typed == TypeOK /\ ProcInv

(* Every list a command may save is one the registry may hold.             *)
LEMMA ListsHave ==
  /\ <<>> \in Lists /\ DirectCameras \in Lists
  /\ \A c \in Configs : AddonCameras(c) \in Lists
  /\ \A a \in WebUsers : Discoveries(a) \subseteq Lists
BY DEF Lists

(* A process that does nothing yet has the type of one.                    *)
LEMMA IdleType == Idle \in ProcRecords /\ RecInv(Idle)
BY ListsHave DEF Idle, ProcRecords, RecInv, UserSteps, SaveSteps

(* No file is taken for a registry without cameras.                        *)
LEMMA NoCamerasType == NoCameras \in Registries
BY ListsHave DEF NoCameras, Registries

(* An update replaces its user's cameras and leaves every other user's     *)
(* alone.                                                                  *)
LEMMA UpdatedType ==
  ASSUME NEW reg \in Registries, NEW user \in Users, NEW list \in Lists
  PROVE  /\ Updated(reg, user, list) \in Registries
         /\ Updated(reg, user, list).cams[user] = list
         /\ \A v \in Users \ {user} : Updated(reg, user, list).cams[v] = reg.cams[v]
BY DEF Updated, Registries

(* Init establishes the types.                                             *)
LEMMA TypedInit == Init => Typed
<1> SUFFICES ASSUME Init PROVE Typed
  OBVIOUS
<1>1. userFile \in [Users -> Users \cup {None, Empty, Broken}]
  BY DEF Init
<1>2. proc \in [Procs -> ProcRecords] /\ ProcInv
  BY IdleType DEF Init, ProcInv
<1>3. latest \in [Users -> Lists]
  BY ListsHave DEF Init
<1> QED
  BY <1>1, <1>2, <1>3, BoundsAssumption DEF Init, Typed, TypeOK

(* A process that becomes a well-formed record keeps all of them so.       *)
LEMMA StepProc ==
  ASSUME Typed, NEW p \in Procs, NEW r \in ProcRecords, RecInv(r), Becomes(p, r)
  PROVE  proc' \in [Procs -> ProcRecords] /\ ProcInv'
BY DEF Typed, TypeOK, ProcInv, Becomes

(* Launching a command keeps the types when its record is well formed.     *)
LEMMA TypedLaunch ==
  ASSUME Typed, NEW p \in Procs, NEW r \in ProcRecords, RecInv(r), Launch(p, r)
  PROVE  Typed'
<1>1. proc' \in [Procs -> ProcRecords] /\ ProcInv'
  BY StepProc DEF Launch
<1> QED
  BY <1>1, BoundsAssumption DEF Typed, TypeOK, Launch, files, history

(* Every launch keeps the types.                                           *)
LEMMA TypedLaunches ==
  ASSUME Typed, NEW p \in Procs,
         \/ LaunchLogin(p) \/ LaunchRemove(p) \/ LaunchRefresh(p)
         \/ LaunchAddon(p) \/ LaunchDirect(p) \/ LaunchServer(p)
  PROVE  Typed'
<1>1. CASE LaunchLogin(p)
  <2>1. PICK u \in WebUsers :
          Launch(p, [Idle EXCEPT !.at = "login", !.cmd = "auth", !.user = u])
    BY <1>1 DEF LaunchLogin
  <2> DEFINE r == [Idle EXCEPT !.at = "login", !.cmd = "auth", !.user = u]
  <2>2. r \in ProcRecords /\ RecInv(r)
    BY IdleType, UsersAssumption DEF ProcRecords, RecInv, UserSteps, SaveSteps, Users
  <2> QED
    BY <2>1, <2>2, TypedLaunch
<1>2. CASE LaunchRemove(p)
  <2>1. PICK u \in Users :
          Launch(p, [Idle EXCEPT !.at = "delete", !.cmd = "remove", !.user = u])
    BY <1>2 DEF LaunchRemove, ListUsers
  <2> DEFINE r == [Idle EXCEPT !.at = "delete", !.cmd = "remove", !.user = u]
  <2>2. r \in ProcRecords /\ RecInv(r)
    BY IdleType DEF ProcRecords, RecInv, UserSteps, SaveSteps, Idle
  <2> QED
    BY <2>1, <2>2, TypedLaunch
<1>3. CASE LaunchRefresh(p)
  <2> DEFINE todo == [u \in Users |-> IF u \in ListUsers THEN userFile[u] ELSE None]
             r == [Idle EXCEPT !.at = "next", !.cmd = "refresh", !.todo = todo]
  <2>1. todo \in [Users -> Users \cup {None}]
    BY DEF ListUsers
  <2>2. r \in ProcRecords /\ RecInv(r)
    BY <2>1, IdleType, ZenonT(60) DEF ProcRecords, RecInv, UserSteps, SaveSteps
  <2> QED
    BY <1>3, <2>2, TypedLaunch DEF LaunchRefresh
<1>4. CASE LaunchAddon(p)
  <2>1. PICK c \in Configs :
          Launch(p, [Idle EXCEPT !.at = "save", !.cmd = "addon", !.user = AddonUser,
                                 !.session = AddonUser, !.list = AddonCameras(c)])
    BY <1>4 DEF LaunchAddon
  <2> DEFINE r == [Idle EXCEPT !.at = "save", !.cmd = "addon", !.user = AddonUser,
                               !.session = AddonUser, !.list = AddonCameras(c)]
  <2>2. r \in ProcRecords /\ RecInv(r)
    BY IdleType, ListsHave, UsersAssumption DEF ProcRecords, RecInv, UserSteps, SaveSteps, Users, Idle
  <2> QED
    BY <2>1, <2>2, TypedLaunch
<1>5. CASE LaunchDirect(p)
  <2> DEFINE r == [Idle EXCEPT !.at = "save", !.cmd = "direct", !.user = DirectUser,
                               !.session = DirectUser, !.list = DirectCameras]
  <2>2. r \in ProcRecords /\ RecInv(r)
    BY IdleType, ListsHave, UsersAssumption DEF ProcRecords, RecInv, UserSteps, SaveSteps, Users, Idle
  <2> QED
    BY <1>5, <2>2, TypedLaunch DEF LaunchDirect
<1>6. CASE LaunchServer(p)
  <2> DEFINE r == [Idle EXCEPT !.at = "serve"]
  <2>2. r \in ProcRecords /\ RecInv(r)
    BY IdleType DEF ProcRecords, RecInv, UserSteps, SaveSteps
  <2> QED
    BY <1>6, <2>2, TypedLaunch DEF LaunchServer
<1> QED
  BY <1>1, <1>2, <1>3, <1>4, <1>5, <1>6

(* What a process holds is well formed.                                    *)
LEMMA TypedHere ==
  ASSUME Typed, NEW p \in Procs
  PROVE  proc[p] \in ProcRecords /\ RecInv(proc[p])
BY DEF Typed, TypeOK, ProcInv

(* A step that only moves its process, to a well-formed record, is enough. *)
LEMMA TypedLocal ==
  ASSUME Typed, NEW p \in Procs, NEW r \in ProcRecords, RecInv(r), Becomes(p, r), Local(p)
  PROVE  Typed'
<1>1. proc' \in [Procs -> ProcRecords] /\ ProcInv'
  BY StepProc
<1> QED
  BY <1>1 DEF Typed, TypeOK, Local, files, history

(* The steps of a login keep the types.                                    *)
LEMMA TypedLogin ==
  ASSUME Typed, NEW p \in Procs,
         \/ GetLoginToken(p) \/ GenerateQRCode(p) \/ PasswordLogin(p) \/ PollForLogin(p)
         \/ LoginFails(p)
  PROVE  Typed'
<1> USE TypedHere
<1>1. CASE GetLoginToken(p)
  <2> DEFINE r == [proc[p] EXCEPT !.at = "token"]
  <2>1. r \in ProcRecords /\ RecInv(r)
    BY <1>1 DEF ProcRecords, RecInv, UserSteps, SaveSteps, GetLoginToken, At
  <2> QED
    BY <1>1, <2>1, TypedLocal DEF GetLoginToken, Goes
<1>2. CASE GenerateQRCode(p)
  <2> DEFINE r == [proc[p] EXCEPT !.at = "poll"]
  <2>1. r \in ProcRecords /\ RecInv(r)
    BY <1>2 DEF ProcRecords, RecInv, UserSteps, SaveSteps, GenerateQRCode, At
  <2> QED
    BY <1>2, <2>1, TypedLocal DEF GenerateQRCode, Goes
<1>3. CASE PasswordLogin(p)
  <2> DEFINE r == [proc[p] EXCEPT !.at = "save", !.session = proc[p].user]
  <2>1. r \in ProcRecords /\ RecInv(r)
    BY <1>3 DEF ProcRecords, RecInv, UserSteps, SaveSteps, PasswordLogin, At, Users
  <2> QED
    BY <1>3, <2>1, TypedLocal DEF PasswordLogin
<1>4. CASE PollForLogin(p)
  <2>1. PICK account \in WebUsers :
          Becomes(p, [proc[p] EXCEPT !.at = "save", !.session = account])
    BY <1>4 DEF PollForLogin
  <2> DEFINE r == [proc[p] EXCEPT !.at = "save", !.session = account]
  <2>2. r \in ProcRecords /\ RecInv(r)
    BY <1>4 DEF ProcRecords, RecInv, UserSteps, SaveSteps, PollForLogin, At, Users
  <2>3. proc' \in [Procs -> ProcRecords] /\ ProcInv'
    BY <2>1, <2>2, StepProc
  <2>4. proc[p].user \in WebUsers
    BY <1>4 DEF PollForLogin, RecInv, At
  <2> QED
    BY <1>4, <2>3, <2>4 DEF Typed, TypeOK, PollForLogin, files
<1>5. CASE LoginFails(p)
  BY <1>5, IdleType, TypedLocal DEF LoginFails, Ends
<1> QED
  BY <1>1, <1>2, <1>3, <1>4, <1>5

(* A process whose user's file is written goes on or ends well formed.     *)
LEMMA TypedSaved ==
  ASSUME Typed, NEW p \in Procs, Saved(p), proc[p].at \in {"fill user", "fill gone"}
  PROVE  proc' \in [Procs -> ProcRecords] /\ ProcInv'
<1>1. CASE Ends(p)
  BY <1>1, IdleType, StepProc DEF Ends
<1>2. CASE Goes(p, "read")
  <2> DEFINE r == [proc[p] EXCEPT !.at = "read"]
  <2>1. r \in ProcRecords /\ RecInv(r)
    BY TypedHere DEF ProcRecords, RecInv, UserSteps, SaveSteps
  <2> QED
    BY <1>2, <2>1, StepProc DEF Goes
<1> QED
  BY <1>1, <1>2 DEF Saved

(* The steps on a user's file keep the types.                              *)
LEMMA TypedUser ==
  ASSUME Typed, NEW p \in Procs,
         TruncateUser(p) \/ FillUser(p) \/ FillGone(p) \/ DeleteUser(p)
  PROVE  Typed'
<1> USE TypedHere
<1>1. CASE TruncateUser(p)
  <2> DEFINE r == [proc[p] EXCEPT !.at = "fill user"]
  <2>1. r \in ProcRecords /\ RecInv(r)
    BY <1>1 DEF ProcRecords, RecInv, UserSteps, SaveSteps, TruncateUser, At
  <2>2. proc' \in [Procs -> ProcRecords] /\ ProcInv'
    BY <1>1, <2>1, StepProc DEF TruncateUser, Goes
  <2> QED
    BY <1>1, <2>2 DEF Typed, TypeOK, TruncateUser
<1>2. CASE FillUser(p)
  <2>1. proc' \in [Procs -> ProcRecords] /\ ProcInv'
    BY <1>2, TypedSaved DEF FillUser, At
  <2>2. proc[p].session \in Users
    BY <1>2 DEF FillUser, At, RecInv, SaveSteps
  <2>3. PICK content \in Written(proc[p].session, userFile[proc[p].user]) :
          userFile' = [userFile EXCEPT ![proc[p].user] = content]
    BY <1>2 DEF FillUser
  <2>4. content \in Users \cup {Broken}
    BY <2>2, <2>3 DEF Written
  <2> QED
    BY <1>2, <2>1, <2>3, <2>4 DEF Typed, TypeOK, FillUser, history
<1>3. CASE FillGone(p)
  <2>1. proc' \in [Procs -> ProcRecords] /\ ProcInv'
    BY <1>3, TypedSaved DEF FillGone, At
  <2> QED
    BY <1>3, <2>1 DEF Typed, TypeOK, FillGone, Local, files, history
<1>4. CASE DeleteUser(p)
  <2>1. \A q \in Procs : [proc[q] EXCEPT !.at = "read"] \in ProcRecords
                          /\ [proc[q] EXCEPT !.at = "fill gone"] \in ProcRecords
    BY DEF ProcRecords
  <2>2. RecInv([proc[p] EXCEPT !.at = "read"])
    BY <1>4 DEF DeleteUser, At, RecInv, ProcRecords, UserSteps, SaveSteps
  <2>3. ASSUME NEW q \in Procs, proc[q].at = "fill user"
        PROVE  RecInv([proc[q] EXCEPT !.at = "fill gone"])
    BY <2>3 DEF RecInv, ProcRecords, UserSteps, SaveSteps
  <2>4. proc' \in [Procs -> ProcRecords] /\ ProcInv'
    BY <1>4, <2>1, <2>2, <2>3 DEF DeleteUser, ProcInv
  <2>5. proc[p].user \in Users
    BY <1>4 DEF DeleteUser, At, RecInv, UserSteps
  <2> QED
    BY <1>4, <2>4, <2>5 DEF Typed, TypeOK, DeleteUser
<1> QED
  BY <1>1, <1>2, <1>3, <1>4

(* The steps of a refresh keep the types.                                  *)
LEMMA TypedRefresh ==
  ASSUME Typed, NEW p \in Procs, SkipUser(p) \/ Discover(p) \/ RefreshEnds(p)
  PROVE  Typed'
<1> USE TypedHere
<1>1. CASE SkipUser(p)
  <2>1. PICK u \in Users : Becomes(p, [proc[p] EXCEPT !.todo[u] = None])
    BY <1>1 DEF SkipUser
  <2> DEFINE r == [proc[p] EXCEPT !.todo[u] = None]
  <2>2. r \in ProcRecords /\ RecInv(r)
    BY <1>1, ZenonT(60) DEF ProcRecords, RecInv, UserSteps, SaveSteps, SkipUser, At
  <2> QED
    BY <1>1, <2>1, <2>2, TypedLocal DEF SkipUser
<1>2. CASE Discover(p)
  <2>1. PICK u \in Users : /\ proc[p].todo[u] # None
                           /\ TRUE \in GetAppInfo(proc[p].todo[u])
                           /\ \E list \in Discoveries(proc[p].todo[u]) :
                                Becomes(p, [proc[p] EXCEPT !.at = "read", !.user = u,
                                              !.list = list, !.todo[u] = None])
    BY <1>2 DEF Discover
  <2>2. proc[p].todo[u] \in WebUsers
    BY <2>1 DEF GetAppInfo
  <2>3. PICK list \in Lists : Becomes(p, [proc[p] EXCEPT !.at = "read", !.user = u,
                                             !.list = list, !.todo[u] = None])
    BY <2>1, <2>2, ListsHave
  <2> DEFINE r == [proc[p] EXCEPT !.at = "read", !.user = u, !.list = list, !.todo[u] = None]
  <2>4. r \in ProcRecords /\ RecInv(r)
    BY <1>2 DEF ProcRecords, RecInv, UserSteps, SaveSteps, Discover, At
  <2> QED
    BY <1>2, <2>3, <2>4, TypedLocal DEF Discover
<1>3. CASE RefreshEnds(p)
  BY <1>3, IdleType, TypedLocal DEF RefreshEnds, Ends
<1> QED
  BY <1>1, <1>2, <1>3

(* A process whose update is over goes on or ends well formed.             *)
LEMMA TypedUpdates ==
  ASSUME Typed, NEW p \in Procs, Updates(p)
  PROVE  proc' \in [Procs -> ProcRecords] /\ ProcInv'
<1> USE TypedHere
<1>1. CASE proc[p].cmd = "refresh"
  <2> DEFINE r == [proc[p] EXCEPT !.at = "next", !.snap = None, !.list = <<>>, !.user = None]
  <2>1. r \in ProcRecords /\ RecInv(r)
    BY <1>1, ListsHave DEF ProcRecords, RecInv, UserSteps, SaveSteps
  <2> QED
    BY <1>1, <2>1, StepProc DEF Updates
<1>2. CASE proc[p].cmd = "remove"
  BY <1>2, IdleType, StepProc DEF Updates, Ends
<1>3. CASE proc[p].cmd \notin {"refresh", "remove"}
  <2> DEFINE r == [Idle EXCEPT !.at = "serve"]
  <2>1. r \in ProcRecords /\ RecInv(r)
    BY IdleType DEF ProcRecords, RecInv, UserSteps, SaveSteps
  <2> QED
    BY <1>3, <2>1, StepProc DEF Updates
<1> QED
  BY <1>1, <1>2, <1>3

(* The steps on the registry, a stop and a crash keep the types.           *)
LEMMA TypedRegistry ==
  ASSUME Typed, NEW p \in Procs,
         \/ ReadRegistry(p) \/ TruncateRegistry(p) \/ FillRegistry(p)
         \/ Stop(p) \/ Crash(p)
  PROVE  Typed'
<1> USE TypedHere
<1>1. CASE ReadRegistry(p)
  <2>1. CASE registry \in Unreadable
    <3>1. proc' \in [Procs -> ProcRecords] /\ ProcInv'
      BY <1>1, <2>1, TypedUpdates DEF ReadRegistry
    <3> QED
      BY <1>1, <3>1 DEF Typed, TypeOK, ReadRegistry, files, history
  <2>2. CASE registry \notin Unreadable
    <3> DEFINE r == [proc[p] EXCEPT !.at = "truncate", !.snap = Cameras(registry)]
    <3>1. Cameras(registry) \in Registries
      BY <2>2, NoCamerasType DEF Cameras, Typed, TypeOK, Unreadable
    <3>2. r \in ProcRecords /\ RecInv(r)
      BY <1>1, <3>1 DEF ProcRecords, RecInv, UserSteps, SaveSteps, ReadRegistry, At
    <3>3. proc' \in [Procs -> ProcRecords] /\ ProcInv'
      BY <1>1, <2>2, <3>2, StepProc DEF ReadRegistry
    <3> QED
      BY <1>1, <3>3 DEF Typed, TypeOK, ReadRegistry, files, history
  <2> QED
    BY <2>1, <2>2
<1>2. CASE TruncateRegistry(p)
  <2> DEFINE r == [proc[p] EXCEPT !.at = "fill"]
  <2>1. r \in ProcRecords /\ RecInv(r)
    BY <1>2 DEF ProcRecords, RecInv, UserSteps, SaveSteps, TruncateRegistry, At
  <2>2. proc' \in [Procs -> ProcRecords] /\ ProcInv'
    BY <1>2, <2>1, StepProc DEF TruncateRegistry, Goes
  <2> QED
    BY <1>2, <2>2 DEF Typed, TypeOK, TruncateRegistry, history
<1>3. CASE FillRegistry(p)
  <2> DEFINE u == proc[p].user
             new == Updated(proc[p].snap, u, proc[p].list)
  <2>1. u \in Users /\ proc[p].snap \in Registries /\ proc[p].list \in Lists
    BY <1>3 DEF FillRegistry, At, RecInv, UserSteps, ProcRecords
  <2>2. new \in Registries
    BY <2>1, UpdatedType
  <2>3. proc' \in [Procs -> ProcRecords] /\ ProcInv'
    BY <1>3, TypedUpdates DEF FillRegistry
  <2>4. registry' \in {new, Broken}
    BY <1>3 DEF FillRegistry, Written
  <2>5. latest' \in [Users -> Lists]
    BY <1>3, <2>1 DEF FillRegistry, Typed, TypeOK
  <2>6. stale' \in [Procs -> SUBSET Users]
    BY <1>3, <2>1 DEF FillRegistry, Typed, TypeOK
  <2>7. excused' \subseteq Users /\ story' \subseteq Users
    BY <1>3, <2>1 DEF FillRegistry, Typed, TypeOK
  <2>8. UNCHANGED <<userFile, launches, crashes, confirmed>>
    BY <1>3 DEF FillRegistry
  <2> QED
    BY <2>2, <2>3, <2>4, <2>5, <2>6, <2>7, <2>8 DEF Typed, TypeOK
<1>4. CASE Stop(p)
  BY <1>4, IdleType, TypedLocal DEF Stop, Ends
<1>5. CASE Crash(p)
  <2>1. proc' \in [Procs -> ProcRecords] /\ ProcInv'
    BY <1>5, IdleType, StepProc DEF Crash, Ends
  <2>2. registry' \in {registry, Broken}
    BY <1>5 DEF Crash, files
  <2>3. userFile' \in [Users -> Users \cup {None, Empty, Broken}]
    BY <1>5 DEF Crash, Typed, TypeOK, files
  <2>4. crashes' \in 0..MaxCrashes
    <3>1. crashes \in 0..MaxCrashes
      BY DEF Typed, TypeOK
    <3>2. crashes < MaxCrashes /\ crashes' = crashes + 1
      BY <1>5 DEF Crash
    <3> QED
      BY <3>1, <3>2, BoundsAssumption
  <2>5. stale' \in [Procs -> SUBSET Users]
    BY <1>5 DEF Crash, Typed, TypeOK
  <2> QED
    BY <1>5, <2>1, <2>2, <2>3, <2>4, <2>5 DEF Crash, Typed, TypeOK
<1> QED
  BY <1>1, <1>2, <1>3, <1>4, <1>5

(* Every variable has its type, and what a process is at decides what it   *)
(* holds: the invariant under all the others.                              *)
THEOREM TypeCorrect == Spec => []Typed
<1>1. ASSUME Typed, [Next]_vars PROVE Typed'
  <2>1. CASE Next
    <3>1. PICK p \in Procs :
            \/ LaunchLogin(p) \/ LaunchRemove(p) \/ LaunchRefresh(p)
            \/ LaunchAddon(p) \/ LaunchDirect(p) \/ LaunchServer(p)
            \/ GetLoginToken(p) \/ GenerateQRCode(p) \/ PasswordLogin(p) \/ PollForLogin(p)
            \/ LoginFails(p)
            \/ TruncateUser(p) \/ FillUser(p) \/ FillGone(p) \/ DeleteUser(p)
            \/ SkipUser(p) \/ Discover(p) \/ RefreshEnds(p)
            \/ ReadRegistry(p) \/ TruncateRegistry(p) \/ FillRegistry(p)
            \/ Stop(p) \/ Crash(p)
      BY <2>1 DEF Next
    <3> QED
      BY <1>1, <3>1, TypedLaunches, TypedLogin, TypedUser, TypedRefresh, TypedRegistry
  <2>2. CASE UNCHANGED vars
    BY <1>1, <2>2 DEF Typed, TypeOK, ProcInv, vars, files, history
  <2> QED
    BY <1>1, <2>1, <2>2
<1> QED
  BY <1>1, TypedInit, PTL DEF Spec

(* TypeOK holds in every reachable state.                                  *)
THEOREM TypeOKHolds == Spec => []TypeOK
BY TypeCorrect, PTL DEF Typed

-----------------------------------------------------------------------------
(* The steps that neither change the registry nor read it.                 *)
Quiet ==
  /\ UNCHANGED <<registry, crashes, stale, excused, latest>>
  /\ \A q \in Procs : /\ Holds(q)' => Holds(q) /\ proc'[q].snap = proc[q].snap
                      /\ At(q, "fill") => At(q, "fill")'
                      /\ Holds(q) => Holds(q)'

(* A process that is not writing the registry and does not begin to is     *)
(* quiet.                                                                  *)
LEMMA QuietStep ==
  ASSUME Typed, NEW p \in Procs, NEW r, Becomes(p, r),
         ~Holds(p), r.at \notin {"truncate", "fill"},
         UNCHANGED <<registry, crashes, stale, excused, latest>>
  PROVE  Quiet
BY DEF Typed, TypeOK, Becomes, Holds, At, Quiet

(* The other steps: those that write the registry, or have read it.        *)
Loud(p) ==
  TruncateRegistry(p) \/ FillRegistry(p) \/ Crash(p)
    \/ (ReadRegistry(p) /\ registry \notin Unreadable)

(* All the steps but those of Loud are quiet.                              *)
LEMMA QuietSteps ==
  ASSUME Typed, NEW p \in Procs,
         \/ LaunchLogin(p) \/ LaunchRemove(p) \/ LaunchRefresh(p)
         \/ LaunchAddon(p) \/ LaunchDirect(p) \/ LaunchServer(p)
         \/ GetLoginToken(p) \/ GenerateQRCode(p) \/ PasswordLogin(p) \/ PollForLogin(p)
         \/ LoginFails(p)
         \/ TruncateUser(p) \/ FillUser(p) \/ FillGone(p) \/ DeleteUser(p)
         \/ SkipUser(p) \/ Discover(p) \/ RefreshEnds(p)
         \/ (ReadRegistry(p) /\ registry \in Unreadable) \/ Stop(p)
  PROVE  Quiet
<1> USE TypedHere
<1>0. ASSUME NEW r, Launch(p, r), r.at \notin {"truncate", "fill"} PROVE Quiet
  BY <1>0, QuietStep DEF Launch, At, Holds, files, history
<1>1. CASE LaunchLogin(p)
  <2>1. PICK u \in WebUsers :
          Launch(p, [Idle EXCEPT !.at = "login", !.cmd = "auth", !.user = u])
    BY <1>1 DEF LaunchLogin
  <2> QED
    BY <2>1, <1>0 DEF Idle
<1>2. CASE LaunchRemove(p)
  <2>1. PICK u \in Users :
          Launch(p, [Idle EXCEPT !.at = "delete", !.cmd = "remove", !.user = u])
    BY <1>2 DEF LaunchRemove, ListUsers
  <2> QED
    BY <2>1, <1>0 DEF Idle
<1>3. CASE LaunchRefresh(p)
  BY <1>3, <1>0 DEF LaunchRefresh, Idle
<1>4. CASE LaunchAddon(p)
  <2>1. PICK c \in Configs :
          Launch(p, [Idle EXCEPT !.at = "save", !.cmd = "addon", !.user = AddonUser,
                                 !.session = AddonUser, !.list = AddonCameras(c)])
    BY <1>4 DEF LaunchAddon
  <2> QED
    BY <2>1, <1>0 DEF Idle
<1>5. CASE LaunchDirect(p)
  BY <1>5, <1>0 DEF LaunchDirect, Idle
<1>6. CASE LaunchServer(p)
  BY <1>6, <1>0 DEF LaunchServer, Idle
<1>7. CASE GetLoginToken(p) \/ GenerateQRCode(p) \/ PasswordLogin(p) \/ LoginFails(p)
  BY <1>7, QuietStep DEF GetLoginToken, GenerateQRCode, PasswordLogin, LoginFails, Goes, Ends,
       Idle, Local, At, Holds, files, history, ProcRecords
<1>8. CASE PollForLogin(p)
  <2>1. PICK account \in WebUsers :
          Becomes(p, [proc[p] EXCEPT !.at = "save", !.session = account])
    BY <1>8 DEF PollForLogin
  <2> QED
    BY <1>8, <2>1, QuietStep DEF PollForLogin, At, Holds, files, ProcRecords
<1>9. CASE TruncateUser(p)
  BY <1>9, QuietStep DEF TruncateUser, Goes, At, Holds, ProcRecords
<1>10. CASE FillUser(p)
  BY <1>10, QuietStep DEF FillUser, Saved, Ends, Idle, Goes, At, Holds, history, ProcRecords
<1>11. CASE FillGone(p)
  BY <1>11, QuietStep DEF FillGone, Saved, Ends, Idle, Goes, At, Holds, Local, files, history,
       ProcRecords
<1>12. CASE DeleteUser(p)
  <2>1. \A q \in Procs : proc[q] \in ProcRecords
    BY TypedHere
  <2>2. \A q \in Procs : proc'[q] = proc[q] \/
          (/\ proc[q].at \in {"delete", "fill user"} /\ proc'[q].at \in {"read", "fill gone"})
    BY <1>12, <2>1 DEF DeleteUser, At, ProcRecords
  <2> QED
    BY <1>12, <2>2 DEF DeleteUser, Quiet, Holds, At
<1>13. CASE SkipUser(p)
  <2>1. PICK u \in Users : Becomes(p, [proc[p] EXCEPT !.todo[u] = None])
    BY <1>13 DEF SkipUser
  <2> QED
    BY <1>13, <2>1, QuietStep DEF SkipUser, At, Holds, Local, files, history, ProcRecords
<1>14. CASE Discover(p)
  <2>1. PICK u, list : Becomes(p, [proc[p] EXCEPT !.at = "read", !.user = u, !.list = list,
                                                  !.todo[u] = None])
    BY <1>14 DEF Discover
  <2> QED
    BY <1>14, <2>1, QuietStep DEF Discover, At, Holds, Local, files, history, ProcRecords
<1>15. CASE RefreshEnds(p) \/ Stop(p)
  BY <1>15, QuietStep DEF RefreshEnds, Stop, Ends, Idle, At, Holds, Local, files, history
<1>16. CASE ReadRegistry(p) /\ registry \in Unreadable
  <2>1. Updates(p) /\ At(p, "read") /\ UNCHANGED <<files, launches, crashes, history>>
    BY <1>16 DEF ReadRegistry
  <2>2. CASE proc[p].cmd = "refresh"
    BY <2>1, <2>2, QuietStep DEF Updates, At, Holds, files, history, ProcRecords
  <2>3. CASE proc[p].cmd # "refresh"
    BY <2>1, <2>3, QuietStep DEF Updates, Ends, Idle, At, Holds, files, history
  <2> QED
    BY <2>2, <2>3
<1> QED
  BY <1>1, <1>2, <1>3, <1>4, <1>5, <1>6, <1>7, <1>8, <1>9, <1>10, <1>11, <1>12, <1>13, <1>14,
     <1>15, <1>16

(* A step is quiet or one of those that matter to the registry.            *)
LEMMA LoudOrQuiet ==
  ASSUME Typed, [Next]_vars
  PROVE  Quiet \/ \E p \in Procs : Loud(p)
<1>1. CASE UNCHANGED vars
  BY <1>1 DEF vars, files, history, Quiet, Holds, At
<1>2. CASE Next
  BY <1>2, QuietSteps DEF Next, Loud
<1> QED
  BY <1>1, <1>2

-----------------------------------------------------------------------------
(* Whoever is to write the registry remembers what was reported saved,     *)
(* but for users saved since.                                              *)
KeptInv ==
  /\ registry \notin Unreadable =>
       \A u \in Users \ excused : Cameras(registry).cams[u] = latest[u]
  /\ \A p \in Procs : Holds(p) =>
       \A u \in Users \ (excused \cup stale[p]) : proc[p].snap.cams[u] = latest[u]
  /\ registry = Empty => crashes > 0 \/ \E p \in Procs : At(p, "fill")

(* Nothing is saved and nobody has read the registry at first.             *)
LEMMA KeptInit == Init => KeptInv
<1> SUFFICES ASSUME Init PROVE KeptInv
  OBVIOUS
<1>1. registry = None /\ latest = [u \in Users |-> <<>>]
  BY DEF Init
<1>2. \A u \in Users : Cameras(registry).cams[u] = latest[u]
  BY <1>1 DEF Cameras, NoCameras
<1>3. \A p \in Procs : ~Holds(p)
  BY DEF Init, Idle, Holds
<1> QED
  BY <1>1, <1>2, <1>3, FilesAssumption DEF KeptInv

(* A quiet step keeps what was reported saved.                             *)
LEMMA KeptQuiet ==
  ASSUME KeptInv, Quiet
  PROVE  KeptInv'
<1>1. Cameras(registry)' = Cameras(registry)
  BY DEF Quiet, Cameras
<1>2. (registry \notin Unreadable =>
         \A u \in Users \ excused : Cameras(registry).cams[u] = latest[u])'
  BY <1>1 DEF Quiet, KeptInv
<1>3. (\A p \in Procs : Holds(p) =>
         \A u \in Users \ (excused \cup stale[p]) : proc[p].snap.cams[u] = latest[u])'
  BY DEF Quiet, KeptInv
<1>4. (registry = Empty => crashes > 0 \/ \E p \in Procs : At(p, "fill"))'
  BY DEF Quiet, KeptInv
<1> QED
  BY <1>2, <1>3, <1>4 DEF KeptInv

(* A step of one process leaves the others where they are.                 *)
LEMMA OthersStay ==
  ASSUME Typed, NEW p \in Procs, NEW r, Becomes(p, r)
  PROVE  /\ proc'[p] = r
         /\ \A q \in Procs \ {p} : proc'[q] = proc[q]
BY DEF Typed, TypeOK, Becomes

(* A process whose update is over no longer holds the registry.            *)
LEMMA UpdatesLeave ==
  ASSUME Typed, NEW p \in Procs, Updates(p)
  PROVE  /\ ~Holds(p)'
         /\ \A q \in Procs \ {p} : proc'[q] = proc[q]
<1>1. CASE proc[p].cmd = "refresh"
  <2> DEFINE r == [proc[p] EXCEPT !.at = "next", !.snap = None, !.list = <<>>, !.user = None]
  <2>1. Becomes(p, r)
    BY <1>1 DEF Updates
  <2>2. r.at = "next"
    BY TypedHere DEF ProcRecords
  <2> HIDE DEF r
  <2> QED
    BY <2>1, <2>2, OthersStay DEF Holds
<1>2. CASE proc[p].cmd # "refresh"
  BY <1>2, OthersStay DEF Updates, Ends, Idle, Holds
<1> QED
  BY <1>1, <1>2

(* Reading, truncating, filling and dying keep what was reported saved:    *)
(* the one case by case argument of this part.                             *)
LEMMA KeptLoud ==
  ASSUME Typed, KeptInv, NEW p \in Procs, Loud(p)
  PROVE  KeptInv'
<1>1. CASE ReadRegistry(p) /\ registry \notin Unreadable
  <2> DEFINE r == [proc[p] EXCEPT !.at = "truncate", !.snap = Cameras(registry)]
  <2>1. Becomes(p, r) /\ At(p, "read") /\ UNCHANGED <<registry, crashes, stale, excused, latest>>
    BY <1>1 DEF ReadRegistry, files, history
  <2>2. r.snap = Cameras(registry) /\ r.at = "truncate"
    BY TypedHere DEF ProcRecords
  <2>3. proc'[p] = r /\ \A q \in Procs \ {p} : proc'[q] = proc[q]
    BY <2>1, OthersStay
  <2> HIDE DEF r
  <2>4. ASSUME NEW q \in Procs, Holds(q)', NEW u \in Users \ (excused' \cup stale'[q])
        PROVE  proc'[q].snap.cams[u] = latest'[u]
    <3>1. CASE q = p
      BY <1>1, <2>1, <2>2, <2>3, <2>4, <3>1 DEF KeptInv
    <3>2. CASE q # p
      BY <2>1, <2>3, <2>4, <3>2 DEF KeptInv, Holds
    <3> QED
      BY <3>1, <3>2
  <2>5. Cameras(registry)' = Cameras(registry)
    BY <2>1 DEF Cameras
  <2>6. registry' # Empty
    BY <1>1, <2>1 DEF Unreadable
  <2> QED
    BY <2>1, <2>4, <2>5, <2>6 DEF KeptInv
<1>2. CASE TruncateRegistry(p)
  <2> DEFINE r == [proc[p] EXCEPT !.at = "fill"]
  <2>1. /\ Becomes(p, r) /\ At(p, "truncate") /\ registry' = Empty
        /\ UNCHANGED <<crashes, stale, excused, latest>>
    BY <1>2 DEF TruncateRegistry, Goes, history
  <2>2. r.snap = proc[p].snap /\ r.at = "fill"
    BY TypedHere DEF ProcRecords
  <2>3. proc'[p] = r /\ \A q \in Procs \ {p} : proc'[q] = proc[q]
    BY <2>1, OthersStay
  <2> HIDE DEF r
  <2>4. ASSUME NEW q \in Procs, Holds(q)', NEW u \in Users \ (excused' \cup stale'[q])
        PROVE  proc'[q].snap.cams[u] = latest'[u]
    <3>1. Holds(q) /\ proc'[q].snap = proc[q].snap
      BY <2>1, <2>2, <2>3, <2>4 DEF Holds, At
    <3> QED
      BY <2>1, <2>4, <3>1 DEF KeptInv
  <2>5. At(p, "fill")'
    BY <2>2, <2>3 DEF At
  <2> QED
    BY <2>1, <2>4, <2>5 DEF KeptInv, Unreadable
<1>3. CASE FillRegistry(p)
  <2> DEFINE u == proc[p].user
             new == Updated(proc[p].snap, u, proc[p].list)
  <2>1. /\ Updates(p) /\ registry' \in {new, Broken}
        /\ latest' = [latest EXCEPT ![u] = proc[p].list]
        /\ stale' = [q \in Procs |-> IF q # p /\ Holds(q) THEN stale[q] \cup {u} ELSE {}]
        /\ excused' = (excused \cup stale[p]) \ {u}
        /\ Holds(p)
    BY <1>3 DEF FillRegistry, Written, Holds, At
  <2>2. u \in Users /\ proc[p].snap \in Registries /\ proc[p].list \in Lists
    BY <1>3, TypedHere DEF FillRegistry, At, RecInv, UserSteps, ProcRecords
  <2>3. /\ new \in Registries /\ new.cams[u] = proc[p].list
        /\ \A v \in Users \ {u} : new.cams[v] = proc[p].snap.cams[v]
    BY <2>2, UpdatedType
  <2>4. latest'[u] = proc[p].list /\ \A v \in Users \ {u} : latest'[v] = latest[v]
    BY <2>1, <2>2 DEF Typed, TypeOK
  <2>5. \A v \in Users \ excused' : new.cams[v] = latest'[v]
    BY <2>1, <2>3, <2>4 DEF KeptInv
  <2>6. (registry \notin Unreadable =>
           \A v \in Users \ excused : Cameras(registry).cams[v] = latest[v])'
    BY <2>1, <2>3, <2>5, FilesAssumption DEF Unreadable, Cameras
  <2>7. ASSUME NEW q \in Procs, Holds(q)', NEW v \in Users \ (excused' \cup stale'[q])
        PROVE  proc'[q].snap.cams[v] = latest'[v]
    <3>1. q # p /\ proc'[q] = proc[q] /\ Holds(q)
      BY <2>1, <2>7, UpdatesLeave DEF Holds
    <3>2. stale'[q] = stale[q] \cup {u}
      BY <2>1, <3>1
    <3>3. v # u /\ v \notin excused /\ v \notin stale[q]
      BY <2>1, <2>7, <3>2
    <3> QED
      BY <2>4, <3>1, <3>3 DEF KeptInv
  <2>8. registry' # Empty
    BY <2>1, <2>3, FilesAssumption
  <2> QED
    BY <2>6, <2>7, <2>8 DEF KeptInv
<1>4. CASE Crash(p)
  <2>1. /\ Becomes(p, Idle) /\ registry' \in {registry, Broken} /\ crashes' = crashes + 1
        /\ stale' = [stale EXCEPT ![p] = {}] /\ UNCHANGED <<excused, latest>>
    BY <1>4 DEF Crash, Ends, files
  <2>2. proc'[p] = Idle /\ \A q \in Procs \ {p} : proc'[q] = proc[q]
    BY <2>1, OthersStay
  <2>3. \A q \in Procs : Holds(q)' => q # p /\ Holds(q) /\ proc'[q] = proc[q] /\ stale'[q] = stale[q]
    BY <2>1, <2>2 DEF Holds, Idle, Typed, TypeOK
  <2>4. crashes' > 0
    BY <2>1, BoundsAssumption DEF Typed, TypeOK
  <2>5. registry' \notin Unreadable => Cameras(registry)' = Cameras(registry) /\ registry' = registry
    BY <2>1 DEF Unreadable, Cameras
  <2> QED
    BY <2>1, <2>3, <2>4, <2>5 DEF KeptInv
<1> QED
  BY <1>1, <1>2, <1>3, <1>4 DEF Loud

(* Nothing that was reported saved is lost, but to a command that read the *)
(* registry before it was.                                                 *)
THEOREM UpdatesKeptHolds == Spec => []UpdatesKept
<1>1. Typed /\ KeptInv /\ [Next]_vars => KeptInv'
  BY LoudOrQuiet, KeptQuiet, KeptLoud
<1>2. KeptInv => UpdatesKept
  BY DEF KeptInv, UpdatesKept
<1> QED
  BY <1>1, <1>2, KeptInit, TypeCorrect, PTL DEF Spec

-----------------------------------------------------------------------------
(* What cannot be read stays so while nobody is writing it: every command  *)
(* that needs the registry gives up.                                       *)
THEOREM BrokenStaysHolds == Spec => BrokenStays
<1>1. ASSUME Typed, [Next]_vars, ~Writing, registry \in Unreadable
      PROVE  registry' = registry /\ ~Writing'
  <2>1. ASSUME NEW p \in Procs PROVE ~Loud(p) \/ (Crash(p) /\ UNCHANGED registry)
    BY <1>1 DEF Loud, Writing, Holds, TruncateRegistry, FillRegistry, Crash, At, files
  <2>2. CASE Quiet
    BY <1>1, <2>2 DEF Quiet, Writing
  <2>3. ASSUME NEW p \in Procs, Crash(p), UNCHANGED registry PROVE ~Writing'
    <3>1. proc'[p] = Idle /\ \A q \in Procs \ {p} : proc'[q] = proc[q]
      BY <1>1, <2>3, OthersStay DEF Crash, Ends
    <3> QED
      BY <1>1, <3>1 DEF Writing, Holds, Idle
  <2> QED
    BY <1>1, <2>1, <2>2, <2>3, LoudOrQuiet
<1>2. Typed /\ [Next]_vars
        => [~Writing /\ registry \in Unreadable => registry' = registry /\ ~Writing']_vars
  BY <1>1
<1> QED
  BY <1>2, TypeCorrect, PTL DEF Spec, BrokenStays

-----------------------------------------------------------------------------
(* A user without a file and without a story has nothing saved.            *)
GoneInv == \A u \in Users \ story : userFile[u] = None => latest[u] = <<>>

(* Nothing changes for a removed user while files and reports stay.        *)
LEMMA GoneQuiet ==
  ASSUME GoneInv, UNCHANGED <<userFile, story, latest>>
  PROVE  GoneInv'
BY DEF GoneInv

(* The steps that change a file or a report keep removed users empty.      *)
LEMMA GoneStep ==
  ASSUME Typed, GoneInv, NEW p \in Procs,
         TruncateUser(p) \/ FillUser(p) \/ DeleteUser(p) \/ FillRegistry(p) \/ Crash(p)
  PROVE  GoneInv'
<1> DEFINE u == proc[p].user
<1>1. CASE TruncateUser(p)
  <2>1. /\ userFile' = [userFile EXCEPT ![u] = Empty] /\ story' = story \ {u}
        /\ UNCHANGED latest /\ u \in Users
    BY <1>1, TypedHere DEF TruncateUser, At, RecInv, UserSteps
  <2> QED
    BY <2>1, FilesAssumption DEF GoneInv, Typed, TypeOK
<1>2. CASE FillUser(p)
  <2>1. u \in Users /\ proc[p].session \in Users
    BY <1>2, TypedHere DEF FillUser, At, RecInv, UserSteps, SaveSteps
  <2>2. PICK content \in {proc[p].session, Broken} : userFile' = [userFile EXCEPT ![u] = content]
    BY <1>2 DEF FillUser, Written
  <2>3. UNCHANGED <<story, latest>>
    BY <1>2 DEF FillUser, history
  <2> QED
    BY <2>1, <2>2, <2>3, FilesAssumption DEF GoneInv, Typed, TypeOK
<1>3. CASE DeleteUser(p)
  <2>1. /\ userFile' = [userFile EXCEPT ![u] = None] /\ story' = story \cup {u}
        /\ UNCHANGED latest
    BY <1>3 DEF DeleteUser
  <2> QED
    BY <2>1 DEF GoneInv, Typed, TypeOK
<1>4. CASE FillRegistry(p)
  <2>1. /\ latest' = [latest EXCEPT ![u] = proc[p].list] /\ UNCHANGED userFile
        /\ story' = IF proc[p].cmd = "remove" THEN story \ {u}
                    ELSE IF userFile[u] = None THEN story \cup {u} ELSE story
    BY <1>4 DEF FillRegistry
  <2>2. u \in Users /\ (proc[p].cmd = "remove" => proc[p].list = <<>>)
    BY <1>4, TypedHere DEF FillRegistry, At, RecInv, UserSteps
  <2>3. latest'[u] = proc[p].list /\ \A v \in Users \ {u} : latest'[v] = latest[v]
    BY <2>1, <2>2 DEF Typed, TypeOK
  <2> QED
    BY <2>1, <2>2, <2>3 DEF GoneInv
<1>5. CASE Crash(p)
  <2>1. UNCHANGED <<story, latest>>
    BY <1>5 DEF Crash
  <2>2. \/ UNCHANGED userFile
        \/ u \in Users /\ userFile' = [userFile EXCEPT ![u] = Broken]
    BY <1>5, TypedHere DEF Crash, files, At, RecInv, UserSteps
  <2> QED
    BY <2>1, <2>2, FilesAssumption DEF GoneInv, Typed, TypeOK
<1> QED
  BY <1>1, <1>2, <1>3, <1>4, <1>5

(* A removed user's cameras are gone from the registry, unless the removal *)
(* did not end or somebody who knew the user before put them back.         *)
THEOREM RemovedIsGoneHolds == Spec => []RemovedIsGone
<1>1. Init => GoneInv
  BY DEF Init, GoneInv
<1>2. ASSUME Typed, GoneInv, [Next]_vars PROVE GoneInv'
  <2>1. CASE UNCHANGED vars
    BY <1>2, <2>1, GoneQuiet DEF vars, files, history
  <2>2. CASE Next
    <3>1. ASSUME NEW p \in Procs, NEW r, Launch(p, r) PROVE GoneInv'
      BY <1>2, <3>1, GoneQuiet DEF Launch, files, history
    <3>2. ASSUME NEW p \in Procs, Local(p) PROVE GoneInv'
      BY <1>2, <3>2, GoneQuiet DEF Local, files, history
    <3>3. ASSUME NEW p \in Procs, \/ LaunchLogin(p) \/ LaunchRemove(p) \/ LaunchRefresh(p)
                                  \/ LaunchAddon(p) \/ LaunchDirect(p) \/ LaunchServer(p)
          PROVE  GoneInv'
      BY <3>1, <3>3 DEF LaunchLogin, LaunchRemove, LaunchRefresh, LaunchAddon, LaunchDirect,
           LaunchServer
    <3>4. ASSUME NEW p \in Procs,
                 \/ GetLoginToken(p) \/ GenerateQRCode(p) \/ PasswordLogin(p) \/ LoginFails(p)
                 \/ FillGone(p) \/ SkipUser(p) \/ Discover(p) \/ RefreshEnds(p) \/ Stop(p)
          PROVE  GoneInv'
      BY <3>2, <3>4 DEF GetLoginToken, GenerateQRCode, PasswordLogin, LoginFails, FillGone,
           SkipUser, Discover, RefreshEnds, Stop
    <3>5. ASSUME NEW p \in Procs, PollForLogin(p) \/ ReadRegistry(p) \/ TruncateRegistry(p)
          PROVE  GoneInv'
      BY <1>2, <3>5, GoneQuiet DEF PollForLogin, ReadRegistry, TruncateRegistry, files, history
    <3> QED
      BY <1>2, <2>2, <3>3, <3>4, <3>5, GoneStep DEF Next
  <2> QED
    BY <1>2, <2>1, <2>2
<1>3. UpdatesKept /\ GoneInv => RemovedIsGone
  BY DEF UpdatesKept, GoneInv, RemovedIsGone
<1> QED
  BY <1>1, <1>2, <1>3, UpdatesKeptHolds, TypeCorrect, PTL DEF Spec

-----------------------------------------------------------------------------
(* What belongs to a web user's own account: sessions, and the cameras     *)
(* found with them, on their way into the registry.                        *)
Mine(u, list) == list \in Discoveries(u) \cup {<<>>}

RecOwned(r, c) ==
  \A u \in WebUsers \ c :
    /\ r.todo[u] \in {None, u}
    /\ r.at \in {"save", "fill user"} /\ r.user = u => r.session = u
    /\ r.at \in {"read", "truncate", "fill"} /\ r.user = u => Mine(u, r.list)
    /\ r.at \in {"truncate", "fill"} => Mine(u, r.snap.cams[u])

OwnedInv ==
  /\ \A p \in Procs : RecOwned(proc[p], confirmed)
  /\ \A u \in WebUsers \ confirmed : userFile[u] \in Users => userFile[u] = u
  /\ registry \notin Unreadable =>
       \A u \in WebUsers \ confirmed : Mine(u, Cameras(registry).cams[u])

(* At first every session is its user's own and nothing is listed.         *)
LEMMA OwnedInit == Init => OwnedInv
<1> SUFFICES ASSUME Init PROVE OwnedInv
  OBVIOUS
<1>1. \A u \in WebUsers : u \in Users
  BY DEF Users
<1>2. \A p \in Procs : RecOwned(proc[p], confirmed)
  BY <1>1 DEF Init, Idle, RecOwned
<1>3. \A u \in WebUsers : userFile[u] \in Users => userFile[u] = u
  BY <1>1, FilesAssumption DEF Init
<1>4. \A u \in WebUsers : Mine(u, Cameras(registry).cams[u])
  BY <1>1 DEF Init, Cameras, NoCameras, Mine
<1> QED
  BY <1>2, <1>3, <1>4 DEF OwnedInv

(* A step that only moves its process, to a record that holds nothing      *)
(* foreign, keeps accounts apart.                                          *)
LEMMA OwnedStep ==
  ASSUME Typed, OwnedInv, NEW p \in Procs, NEW r, Becomes(p, r), RecOwned(r, confirmed'),
         confirmed \subseteq confirmed', UNCHANGED files
  PROVE  OwnedInv'
<1>0. \A q \in Procs : RecOwned(proc[q], confirmed')
  BY DEF OwnedInv, RecOwned
<1>1. \A q \in Procs : RecOwned(proc'[q], confirmed')
  BY <1>0, OthersStay
<1>2. Cameras(registry)' = Cameras(registry)
  BY DEF Cameras, files
<1> QED
  BY <1>1, <1>2 DEF OwnedInv, files

(* Launching such a record keeps accounts apart.                           *)
LEMMA OwnedLaunch ==
  ASSUME Typed, OwnedInv, NEW p \in Procs, NEW r, Launch(p, r), RecOwned(r, confirmed)
  PROVE  OwnedInv'
BY OwnedStep DEF Launch, history

(* So does a step without effect on the files.                             *)
LEMMA OwnedLocal ==
  ASSUME Typed, OwnedInv, NEW p \in Procs, NEW r, Becomes(p, r), Local(p), RecOwned(r, confirmed)
  PROVE  OwnedInv'
BY OwnedStep DEF Local, history

(* An idle or serving process holds nothing of anybody.                    *)
LEMMA OwnedIdle == \A c : RecOwned(Idle, c) /\ RecOwned([Idle EXCEPT !.at = "serve"], c)
BY DEF RecOwned, Idle, Users

(* Every launch keeps accounts apart: a refresh takes the sessions from    *)
(* files that are their own.                                               *)
LEMMA OwnedLaunches ==
  ASSUME Typed, OwnedInv, NEW p \in Procs,
         \/ LaunchLogin(p) \/ LaunchRemove(p) \/ LaunchRefresh(p)
         \/ LaunchAddon(p) \/ LaunchDirect(p) \/ LaunchServer(p)
  PROVE  OwnedInv'
<1>1. CASE LaunchLogin(p)
  BY <1>1, OwnedLaunch DEF LaunchLogin, RecOwned, Idle, Users
<1>2. CASE LaunchRemove(p)
  BY <1>2, OwnedLaunch DEF LaunchRemove, RecOwned, Idle, Users
<1>3. CASE LaunchRefresh(p)
  <2> DEFINE todo == [u \in Users |-> IF u \in ListUsers THEN userFile[u] ELSE None]
             r == [Idle EXCEPT !.at = "next", !.cmd = "refresh", !.todo = todo]
  <2>1. \A u \in WebUsers \ confirmed : todo[u] \in {None, u}
    BY DEF OwnedInv, ListUsers, Users
  <2>2. r.todo = todo /\ r.at = "next"
    BY DEF Idle
  <2>3. RecOwned(r, confirmed)
    BY <2>1, <2>2 DEF RecOwned
  <2> QED
    BY <1>3, <2>3, OwnedLaunch DEF LaunchRefresh
<1>4. CASE LaunchAddon(p)
  BY <1>4, OwnedLaunch, UsersAssumption DEF LaunchAddon, RecOwned, Idle, Users
<1>5. CASE LaunchDirect(p)
  BY <1>5, OwnedLaunch, UsersAssumption DEF LaunchDirect, RecOwned, Idle, Users
<1>6. CASE LaunchServer(p)
  BY <1>6, OwnedLaunch, OwnedIdle DEF LaunchServer
<1> QED
  BY <1>1, <1>2, <1>3, <1>4, <1>5, <1>6

(* A login ends with the account of the user, or the user is confirmed.    *)
LEMMA OwnedLogin ==
  ASSUME Typed, OwnedInv, NEW p \in Procs,
         \/ GetLoginToken(p) \/ GenerateQRCode(p) \/ PasswordLogin(p) \/ PollForLogin(p)
         \/ LoginFails(p)
  PROVE  OwnedInv'
<1>0. proc[p] \in ProcRecords /\ RecInv(proc[p]) /\ RecOwned(proc[p], confirmed)
  BY TypedHere DEF OwnedInv
<1>1. CASE GetLoginToken(p)
  <2> DEFINE r == [proc[p] EXCEPT !.at = "token"]
  <2>1. RecOwned(r, confirmed)
    BY <1>0 DEF RecOwned, ProcRecords
  <2> QED
    BY <1>1, <2>1, OwnedLocal DEF GetLoginToken, Goes
<1>2. CASE GenerateQRCode(p)
  <2> DEFINE r == [proc[p] EXCEPT !.at = "poll"]
  <2>1. RecOwned(r, confirmed)
    BY <1>0 DEF RecOwned, ProcRecords
  <2> QED
    BY <1>2, <2>1, OwnedLocal DEF GenerateQRCode, Goes
<1>3. CASE PasswordLogin(p)
  <2> DEFINE r == [proc[p] EXCEPT !.at = "save", !.session = proc[p].user]
  <2>1. RecOwned(r, confirmed)
    BY <1>0 DEF RecOwned, ProcRecords
  <2> QED
    BY <1>3, <2>1, OwnedLocal DEF PasswordLogin
<1>4. CASE PollForLogin(p)
  <2>1. PICK account \in WebUsers :
          /\ Becomes(p, [proc[p] EXCEPT !.at = "save", !.session = account])
          /\ confirmed' = IF account = proc[p].user THEN confirmed
                          ELSE confirmed \cup {proc[p].user}
    BY <1>4 DEF PollForLogin
  <2> DEFINE r == [proc[p] EXCEPT !.at = "save", !.session = account]
  <2>2. RecOwned(r, confirmed')
    BY <1>0, <2>1 DEF RecOwned, ProcRecords
  <2> QED
    BY <1>4, <2>1, <2>2, OwnedStep DEF PollForLogin
<1>5. CASE LoginFails(p)
  BY <1>5, OwnedLocal, OwnedIdle DEF LoginFails, Ends
<1> QED
  BY <1>1, <1>2, <1>3, <1>4, <1>5

(* A process whose user's file is written holds nothing foreign.           *)
LEMMA OwnedSaved ==
  ASSUME Typed, OwnedInv, NEW p \in Procs, Saved(p), proc[p].at \in {"fill user", "fill gone"}
  PROVE  \A q \in Procs : RecOwned(proc'[q], confirmed)
<1>0. proc[p] \in ProcRecords /\ RecInv(proc[p]) /\ RecOwned(proc[p], confirmed)
  BY TypedHere DEF OwnedInv
<1>1. CASE Ends(p)
  BY <1>1, OthersStay, OwnedIdle DEF Ends, OwnedInv
<1>2. CASE ~Ends(p)
  <2> DEFINE r == [proc[p] EXCEPT !.at = "read"]
  <2>1. Becomes(p, r) /\ proc[p].cmd # "auth"
    BY <1>2 DEF Saved, Goes
  <2>2. RecOwned(r, confirmed)
    BY <1>0, <2>1 DEF RecOwned, RecInv, SaveSteps, ProcRecords
  <2> HIDE DEF r
  <2> QED
    BY <2>1, <2>2, OthersStay DEF OwnedInv
<1> QED
  BY <1>1, <1>2

(* The steps on a user's file keep accounts apart.                         *)
LEMMA OwnedUser ==
  ASSUME Typed, OwnedInv, NEW p \in Procs,
         TruncateUser(p) \/ FillUser(p) \/ FillGone(p) \/ DeleteUser(p)
  PROVE  OwnedInv'
<1>0. proc[p] \in ProcRecords /\ RecInv(proc[p]) /\ RecOwned(proc[p], confirmed)
  BY TypedHere DEF OwnedInv
<1>1. Cameras(registry)' = Cameras(registry) /\ UNCHANGED <<registry, confirmed>>
  BY DEF Cameras, TruncateUser, FillUser, FillGone, DeleteUser, Local, files, history
<1>2. CASE TruncateUser(p)
  <2> DEFINE r == [proc[p] EXCEPT !.at = "fill user"]
  <2>1. /\ Becomes(p, r) /\ At(p, "save")
        /\ userFile' = [userFile EXCEPT ![proc[p].user] = Empty]
    BY <1>2 DEF TruncateUser, Goes
  <2>2. RecOwned(r, confirmed)
    BY <1>0, <2>1 DEF RecOwned, At, ProcRecords
  <2> HIDE DEF r
  <2>3. \A q \in Procs : RecOwned(proc'[q], confirmed)
    BY <2>1, <2>2, OthersStay DEF OwnedInv
  <2>4. \A u \in WebUsers \ confirmed : userFile'[u] \in Users => userFile'[u] = u
    BY <2>1, FilesAssumption DEF OwnedInv, Typed, TypeOK, Users
  <2> QED
    BY <1>1, <2>3, <2>4 DEF OwnedInv
<1>3. CASE FillUser(p)
  <2>1. PICK content \in {proc[p].session, Broken} :
          userFile' = [userFile EXCEPT ![proc[p].user] = content]
    BY <1>3 DEF FillUser, Written
  <2>2. \A q \in Procs : RecOwned(proc'[q], confirmed)
    BY <1>3, OwnedSaved DEF FillUser, At
  <2>3. \A u \in WebUsers \ confirmed : proc[p].user = u => proc[p].session = u
    BY <1>0, <1>3 DEF RecOwned, FillUser, At
  <2>4. \A u \in WebUsers \ confirmed : userFile'[u] \in Users => userFile'[u] = u
    BY <2>1, <2>3, FilesAssumption DEF OwnedInv, Typed, TypeOK, Users
  <2> QED
    BY <1>1, <2>2, <2>4 DEF OwnedInv
<1>4. CASE FillGone(p)
  <2>1. \A q \in Procs : RecOwned(proc'[q], confirmed)
    BY <1>4, OwnedSaved DEF FillGone, At
  <2>2. UNCHANGED userFile
    BY <1>4 DEF FillGone, Local, files
  <2> QED
    BY <1>1, <2>1, <2>2 DEF OwnedInv
<1>5. CASE DeleteUser(p)
  <2>1. proc[p].list = <<>> \/ proc[p].cmd # "remove"
    BY <1>0 DEF RecInv
  <2>2. proc[p].cmd = "remove"
    BY <1>0, <1>5 DEF RecInv, DeleteUser, At
  <2>3. RecOwned([proc[p] EXCEPT !.at = "read"], confirmed)
    BY <1>0, <2>1, <2>2 DEF RecOwned, ProcRecords, Mine
  <2>4. \A q \in Procs : proc[q] \in ProcRecords /\ RecOwned(proc[q], confirmed)
    BY TypedHere DEF OwnedInv
  <2>5. ASSUME NEW q \in Procs
        PROVE  RecOwned([proc[q] EXCEPT !.at = "fill gone"], confirmed)
    <3> DEFINE r == [proc[q] EXCEPT !.at = "fill gone"]
    <3>1. r.at = "fill gone" /\ r.todo = proc[q].todo
      BY <2>4 DEF ProcRecords
    <3>2. \A u \in WebUsers \ confirmed : r.todo[u] \in {None, u}
      BY <2>4, <3>1 DEF RecOwned
    <3> HIDE DEF r
    <3>3. RecOwned(r, confirmed)
      BY <3>1, <3>2 DEF RecOwned
    <3> QED
      BY <3>3 DEF r
  <2>6. ASSUME NEW q \in Procs PROVE RecOwned(proc'[q], confirmed)
    <3>1. \/ q = p /\ proc'[q] = [proc[q] EXCEPT !.at = "read"]
          \/ proc'[q] = [proc[q] EXCEPT !.at = "fill gone"]
          \/ proc'[q] = proc[q]
      BY <1>5 DEF DeleteUser
    <3> QED
      BY <2>3, <2>4, <2>5, <3>1
  <2>7. \A u \in WebUsers \ confirmed : userFile'[u] \in Users => userFile'[u] = u
    BY <1>5, FilesAssumption DEF DeleteUser, OwnedInv, Typed, TypeOK, Users
  <2> QED
    BY <1>1, <2>6, <2>7 DEF OwnedInv
<1> QED
  BY <1>2, <1>3, <1>4, <1>5

(* Discovery finds an account's own cameras.                               *)
LEMMA OwnedRefresh ==
  ASSUME Typed, OwnedInv, NEW p \in Procs,
         SkipUser(p) \/ Discover(p) \/ RefreshEnds(p) \/ Stop(p)
  PROVE  OwnedInv'
<1>0. proc[p] \in ProcRecords /\ RecOwned(proc[p], confirmed)
  BY TypedHere DEF OwnedInv
<1>1. CASE SkipUser(p)
  <2>1. PICK u \in Users : Becomes(p, [proc[p] EXCEPT !.todo[u] = None])
    BY <1>1 DEF SkipUser
  <2> DEFINE r == [proc[p] EXCEPT !.todo[u] = None]
  <2>2. RecOwned(r, confirmed)
    BY <1>0 DEF RecOwned, ProcRecords, Users
  <2> QED
    BY <1>1, <2>1, <2>2, OwnedLocal DEF SkipUser
<1>2. CASE Discover(p)
  <2>1. PICK u \in Users : /\ proc[p].todo[u] # None
                           /\ \E list \in Discoveries(proc[p].todo[u]) :
                                Becomes(p, [proc[p] EXCEPT !.at = "read", !.user = u,
                                              !.list = list, !.todo[u] = None])
    BY <1>2 DEF Discover
  <2>2. PICK list \in Discoveries(proc[p].todo[u]) :
          Becomes(p, [proc[p] EXCEPT !.at = "read", !.user = u, !.list = list,
                                     !.todo[u] = None])
    BY <2>1
  <2> DEFINE r == [proc[p] EXCEPT !.at = "read", !.user = u, !.list = list, !.todo[u] = None]
  <2>3. u \in WebUsers \ confirmed => Mine(u, list)
    BY <1>0, <2>1 DEF RecOwned, Mine
  <2>4. /\ r.at = "read" /\ r.user = u /\ r.list = list
        /\ \A v \in Users : r.todo[v] \in {None, proc[p].todo[v]}
    <3>1. r.todo = [proc[p].todo EXCEPT ![u] = None] /\ proc[p].todo \in [Users -> Users \cup {None}]
      BY <1>0 DEF ProcRecords
    <3>2. r.at = "read" /\ r.user = u /\ r.list = list
      BY <1>0 DEF ProcRecords
    <3> HIDE DEF r
    <3> QED
      BY <3>1, <3>2
  <2> HIDE DEF r
  <2>5. RecOwned(r, confirmed)
    BY <1>0, <2>3, <2>4 DEF RecOwned, Users
  <2> QED
    BY <1>2, <2>2, <2>5, OwnedLocal DEF Discover, r
<1>3. CASE RefreshEnds(p) \/ Stop(p)
  BY <1>3, OwnedLocal, OwnedIdle DEF RefreshEnds, Stop, Ends
<1> QED
  BY <1>1, <1>2, <1>3

(* A process whose update is over holds nothing foreign.                   *)
LEMMA OwnedUpdates ==
  ASSUME Typed, OwnedInv, NEW p \in Procs, Updates(p)
  PROVE  \A q \in Procs : RecOwned(proc'[q], confirmed)
<1>0. proc[p] \in ProcRecords /\ RecOwned(proc[p], confirmed)
  BY TypedHere DEF OwnedInv
<1>1. CASE proc[p].cmd = "refresh"
  <2> DEFINE r == [proc[p] EXCEPT !.at = "next", !.snap = None, !.list = <<>>, !.user = None]
  <2>1. Becomes(p, r)
    BY <1>1 DEF Updates
  <2>2. RecOwned(r, confirmed)
    BY <1>0 DEF RecOwned, ProcRecords
  <2> HIDE DEF r
  <2> QED
    BY <2>1, <2>2, OthersStay DEF OwnedInv
<1>2. CASE proc[p].cmd # "refresh"
  <2> DEFINE s == [Idle EXCEPT !.at = "serve"]
  <2>1. Becomes(p, Idle) \/ Becomes(p, s)
    BY <1>2 DEF Updates, Ends
  <2>2. RecOwned(s, confirmed) /\ RecOwned(Idle, confirmed)
    BY OwnedIdle
  <2> HIDE DEF s
  <2> QED
    BY <2>1, <2>2, OthersStay DEF OwnedInv
<1> QED
  BY <1>1, <1>2

(* An update replaces one user's cameras by its own and writes back the    *)
(* others' as they were read.                                              *)
LEMMA OwnedRegistry ==
  ASSUME Typed, OwnedInv, NEW p \in Procs,
         ReadRegistry(p) \/ TruncateRegistry(p) \/ FillRegistry(p) \/ Crash(p)
  PROVE  OwnedInv'
<1>0. proc[p] \in ProcRecords /\ RecInv(proc[p]) /\ RecOwned(proc[p], confirmed)
  BY TypedHere DEF OwnedInv
<1>1. CASE ReadRegistry(p)
  <2>1. At(p, "read") /\ UNCHANGED files /\ UNCHANGED confirmed
    BY <1>1 DEF ReadRegistry, history
  <2>2. Cameras(registry)' = Cameras(registry)
    BY <2>1 DEF Cameras, files
  <2>3. CASE registry \in Unreadable
    BY <1>1, <2>1, <2>2, <2>3, OwnedUpdates DEF ReadRegistry, OwnedInv, files
  <2>4. CASE registry \notin Unreadable
    <3> DEFINE r == [proc[p] EXCEPT !.at = "truncate", !.snap = Cameras(registry)]
    <3>1. Becomes(p, r)
      BY <1>1, <2>4 DEF ReadRegistry
    <3>2. RecOwned(r, confirmed)
      BY <1>0, <2>1, <2>4 DEF RecOwned, ProcRecords, At, OwnedInv
    <3> HIDE DEF r
    <3> QED
      BY <2>1, <3>1, <3>2, OwnedStep
  <2> QED
    BY <2>3, <2>4
<1>2. CASE TruncateRegistry(p)
  <2> DEFINE r == [proc[p] EXCEPT !.at = "fill"]
  <2>1. Becomes(p, r) /\ At(p, "truncate") /\ UNCHANGED <<userFile, confirmed>> /\ registry' = Empty
    BY <1>2 DEF TruncateRegistry, Goes, history
  <2>2. RecOwned(r, confirmed)
    BY <1>0, <2>1 DEF RecOwned, ProcRecords, At
  <2> HIDE DEF r
  <2> QED
    BY <2>1, <2>2, OthersStay DEF OwnedInv, Unreadable
<1>3. CASE FillRegistry(p)
  <2> DEFINE u == proc[p].user
             new == Updated(proc[p].snap, u, proc[p].list)
  <2>1. Updates(p) /\ At(p, "fill") /\ registry' \in {new, Broken} /\ UNCHANGED <<userFile, confirmed>>
    BY <1>3 DEF FillRegistry, Written
  <2>2. u \in Users /\ proc[p].snap \in Registries /\ proc[p].list \in Lists
    BY <1>0, <2>1 DEF At, RecInv, UserSteps, ProcRecords
  <2>3. /\ new \in Registries /\ new.cams[u] = proc[p].list
        /\ \A v \in Users \ {u} : new.cams[v] = proc[p].snap.cams[v]
    BY <2>2, UpdatedType
  <2>4. \A v \in WebUsers \ confirmed : Mine(v, new.cams[v])
    BY <1>0, <2>1, <2>3 DEF RecOwned, At, Users
  <2>5. registry' \notin Unreadable => Cameras(registry)' = new
    BY <2>1, <2>3, FilesAssumption DEF Cameras, Unreadable
  <2>6. \A q \in Procs : RecOwned(proc'[q], confirmed)
    BY <2>1, OwnedUpdates
  <2> HIDE DEF new
  <2> QED
    BY <2>1, <2>4, <2>5, <2>6 DEF OwnedInv
<1>4. CASE Crash(p)
  <2>1. Becomes(p, Idle) /\ UNCHANGED confirmed /\ registry' \in {registry, Broken}
    BY <1>4 DEF Crash, Ends, files
  <2>2. \A q \in Procs : RecOwned(proc'[q], confirmed)
    BY <2>1, OthersStay, OwnedIdle DEF OwnedInv
  <2>3. \A v \in Users : userFile'[v] \in {userFile[v], Broken}
    BY <1>4 DEF Crash, files, Typed, TypeOK
  <2>4. \A v \in WebUsers \ confirmed : userFile'[v] \in Users => userFile'[v] = v
    BY <2>3, FilesAssumption DEF OwnedInv, Users
  <2>5. registry' \notin Unreadable => registry' = registry /\ Cameras(registry)' = Cameras(registry)
    BY <2>1 DEF Unreadable, Cameras
  <2> QED
    BY <2>1, <2>2, <2>4, <2>5 DEF OwnedInv
<1> QED
  BY <1>1, <1>2, <1>3, <1>4

(* The cameras registered for a web user are those its own account could   *)
(* have found, unless another account was accepted for it.                 *)
THEOREM CamerasOwnedHolds == Spec => []CamerasOwned
<1>1. ASSUME Typed, OwnedInv, [Next]_vars PROVE OwnedInv'
  <2>1. CASE UNCHANGED vars
    BY <1>1, <2>1 DEF OwnedInv, vars, files, history, Cameras
  <2>2. CASE Next
    BY <1>1, <2>2, OwnedLaunches, OwnedLogin, OwnedUser, OwnedRefresh, OwnedRegistry DEF Next
  <2> QED
    BY <1>1, <2>1, <2>2
<1>2. OwnedInv => CamerasOwned
  BY DEF OwnedInv, CamerasOwned, Mine
<1> QED
  BY <1>1, <1>2, OwnedInit, TypeCorrect, PTL DEF Spec

-----------------------------------------------------------------------------
(* What is listed for the add-on comes from its configuration alone, so    *)
(* its paths are apart: on its way into the registry, and because no       *)
(* refresh finds a session in the add-on's file that it could discover     *)
(* other cameras with.                                                     *)
Plain(reg) ==
  /\ Distinct(reg.cams[AddonUser])
  /\ \A u : <<u, u>> \notin reg.before

RecPlain(r) ==
  /\ r.todo[AddonUser] \notin WebUsers
  /\ r.at \in {"save", "fill user"} /\ r.user = AddonUser => r.session \notin WebUsers
  /\ r.at \in UserSteps /\ r.user = AddonUser => Distinct(r.list)
  /\ r.at \in {"truncate", "fill"} => Plain(r.snap)

PlainInv ==
  /\ \A p \in Procs : RecPlain(proc[p])
  /\ userFile[AddonUser] \notin WebUsers
  /\ registry \notin Unreadable => Plain(Cameras(registry))

(* The add-on's lists, as they are registered.                             *)
LEMMA AddonLists ==
  ASSUME NEW config \in Configs
  PROVE  /\ Distinct(AddonCameras(config))
         /\ DOMAIN AddonCameras(config) \subseteq Int
<1> DEFINE cams == AssignPaths(config)
<1>1. Nameable(config)
  BY ConfigsAssumption DEF Nameable, Named, Paths, Parts
<1>2. cams \in Seq([id : Parts, path : Paths]) /\ Distinct(cams)
  BY <1>1, PathsApart
<1> HIDE DEF cams
<1>3. AddonCameras(config) = [i \in DOMAIN cams |-> NoSkill(cams[i])]
  BY DEF AddonCameras, cams
<1>4. DOMAIN AddonCameras(config) = DOMAIN cams
  BY <1>3
<1>5. \A i \in DOMAIN cams : AddonCameras(config)[i].path = cams[i].path
  BY <1>3 DEF NoSkill
<1>6. DOMAIN cams \subseteq Int
  BY <1>2
<1> QED
  BY <1>2, <1>4, <1>5, <1>6 DEF Distinct

(* A list's cameras are numbered.                                          *)
LEMMA ListsNumbered == \A list \in Lists : DOMAIN list \subseteq Int
<1>1. \A devices : DOMAIN Described(devices) \subseteq Int
  BY DEF Described
<1>2. ASSUME NEW a \in WebUsers, NEW list \in Discoveries(a)
      PROVE  \E devices : list = Described(devices)
  <2>1. PICK homes \in GetRoomLists(a), shared \in GetSharedHomeList(a) :
          list \in {WithConfig(DevicesOf(a, homes, shared), answered) :
                      answered \in GetWebRTCConfigs(DevicesOf(a, homes, shared))}
    BY <1>2 DEF Discoveries
  <2>2. PICK answered : list = WithConfig(DevicesOf(a, homes, shared), answered)
    BY <2>1
  <2> QED
    BY <2>2 DEF WithConfig
<1>3. DOMAIN DirectCameras \subseteq Int /\ DOMAIN <<>> \subseteq Int
  BY DEF DirectCameras
<1> QED
  BY <1>1, <1>2, <1>3, AddonLists DEF Lists

(* An empty list, and the first registry, have nothing twice.              *)
LEMMA PlainNothing == Distinct(<<>>) /\ Plain(NoCameras)
<1>1. Distinct(<<>>)
  BY DEF Distinct
<1>2. AddonUser \in Users
  BY DEF Users
<1> QED
  BY <1>1, <1>2 DEF Plain, NoCameras

(* At first no list and no session is there.                               *)
LEMMA PlainInit == Init => PlainInv
<1> SUFFICES ASSUME Init PROVE PlainInv
  OBVIOUS
<1>1. AddonUser \in Users /\ AddonUser \notin WebUsers /\ None \notin Users
  BY UsersAssumption, FilesAssumption DEF Users
<1>2. WebUsers \subseteq Users
  BY DEF Users
<1>3. \A p \in Procs : RecPlain(proc[p])
  BY <1>1, <1>2 DEF Init, Idle, RecPlain, UserSteps
<1>4. userFile[AddonUser] \notin WebUsers
  BY <1>1, <1>2 DEF Init
<1>5. Plain(Cameras(registry))
  BY PlainNothing DEF Init, Cameras
<1> QED
  BY <1>3, <1>4, <1>5 DEF PlainInv

(* A step that only moves its process, to a record whose lists are plain.  *)
LEMMA PlainStep ==
  ASSUME Typed, PlainInv, NEW p \in Procs, NEW r, Becomes(p, r), RecPlain(r), UNCHANGED files
  PROVE  PlainInv'
<1>1. \A q \in Procs : RecPlain(proc'[q])
  BY OthersStay DEF PlainInv
<1>2. Cameras(registry)' = Cameras(registry)
  BY DEF Cameras, files
<1> QED
  BY <1>1, <1>2 DEF PlainInv, files

(* An idle or serving process holds no list.                               *)
LEMMA PlainIdle == RecPlain(Idle) /\ RecPlain([Idle EXCEPT !.at = "serve"])
<1>1. None \notin WebUsers /\ AddonUser \in Users
  BY FilesAssumption DEF Users
<1> QED
  BY <1>1 DEF RecPlain, Idle, UserSteps

(* Launching a command: the add-on's list is its configuration's, and a    *)
(* refresh does not take the add-on's file for a web user's session.       *)
LEMMA PlainLaunches ==
  ASSUME Typed, PlainInv, NEW p \in Procs,
         \/ LaunchLogin(p) \/ LaunchRemove(p) \/ LaunchRefresh(p)
         \/ LaunchAddon(p) \/ LaunchDirect(p) \/ LaunchServer(p)
  PROVE  PlainInv'
<1>1. AddonUser \in Users /\ AddonUser \notin WebUsers /\ DirectUser \notin WebUsers
      /\ None \notin WebUsers
  BY UsersAssumption, FilesAssumption DEF Users
<1>2. \A r : Launch(p, r) => Becomes(p, r) /\ UNCHANGED files
  BY DEF Launch
<1>3. CASE LaunchLogin(p)
  <2>1. PICK u \in WebUsers :
          Launch(p, [Idle EXCEPT !.at = "login", !.cmd = "auth", !.user = u])
    BY <1>3 DEF LaunchLogin
  <2>2. RecPlain([Idle EXCEPT !.at = "login", !.cmd = "auth", !.user = u])
    BY <1>1 DEF RecPlain, Idle, UserSteps
  <2> QED
    BY <1>2, <2>1, <2>2, PlainStep
<1>4. CASE LaunchRemove(p)
  <2>1. PICK u \in Users :
          Launch(p, [Idle EXCEPT !.at = "delete", !.cmd = "remove", !.user = u])
    BY <1>4 DEF LaunchRemove, ListUsers
  <2>2. RecPlain([Idle EXCEPT !.at = "delete", !.cmd = "remove", !.user = u])
    BY <1>1, PlainNothing DEF RecPlain, Idle, UserSteps
  <2> QED
    BY <1>2, <2>1, <2>2, PlainStep
<1>5. CASE LaunchRefresh(p)
  <2> DEFINE todo == [u \in Users |-> IF u \in ListUsers THEN userFile[u] ELSE None]
             r == [Idle EXCEPT !.at = "next", !.cmd = "refresh", !.todo = todo]
  <2>1. todo[AddonUser] \notin WebUsers
    BY <1>1 DEF PlainInv
  <2>2. r.todo = todo /\ r.at = "next"
    BY DEF Idle
  <2>3. RecPlain(r)
    BY <2>1, <2>2 DEF RecPlain, UserSteps
  <2> HIDE DEF r
  <2> QED
    BY <1>2, <1>5, <2>3, PlainStep DEF LaunchRefresh, r
<1>6. CASE LaunchAddon(p)
  <2>1. PICK c \in Configs :
          Launch(p, [Idle EXCEPT !.at = "save", !.cmd = "addon", !.user = AddonUser,
                                 !.session = AddonUser, !.list = AddonCameras(c)])
    BY <1>6 DEF LaunchAddon
  <2> DEFINE r == [Idle EXCEPT !.at = "save", !.cmd = "addon", !.user = AddonUser,
                               !.session = AddonUser, !.list = AddonCameras(c)]
  <2>2. r.at = "save" /\ r.session = AddonUser /\ r.list = AddonCameras(c)
        /\ r.todo[AddonUser] = None
    BY <1>1 DEF Idle
  <2>3. RecPlain(r)
    BY <1>1, <2>2, AddonLists DEF RecPlain
  <2> HIDE DEF r
  <2> QED
    BY <1>2, <2>1, <2>3, PlainStep DEF r
<1>7. CASE LaunchDirect(p)
  <2> DEFINE r == [Idle EXCEPT !.at = "save", !.cmd = "direct", !.user = DirectUser,
                               !.session = DirectUser, !.list = DirectCameras]
  <2>1. r.at = "save" /\ r.session = DirectUser /\ r.list = DirectCameras
        /\ r.todo[AddonUser] = None
    BY <1>1 DEF Idle
  <2>2. Distinct(DirectCameras)
    BY DEF DirectCameras, Distinct
  <2>3. RecPlain(r)
    BY <1>1, <2>1, <2>2 DEF RecPlain
  <2> HIDE DEF r
  <2> QED
    BY <1>2, <1>7, <2>3, PlainStep DEF LaunchDirect, r
<1>8. CASE LaunchServer(p)
  BY <1>2, <1>8, PlainStep, PlainIdle DEF LaunchServer
<1> QED
  BY <1>3, <1>4, <1>5, <1>6, <1>7, <1>8

(* The steps of a login hold no list, and never log in for the add-on.     *)
LEMMA PlainLogin ==
  ASSUME Typed, PlainInv, NEW p \in Procs,
         \/ GetLoginToken(p) \/ GenerateQRCode(p) \/ PasswordLogin(p) \/ PollForLogin(p)
         \/ LoginFails(p)
  PROVE  PlainInv'
<1>0. proc[p] \in ProcRecords /\ RecInv(proc[p]) /\ RecPlain(proc[p])
  BY TypedHere DEF PlainInv
<1>1. UNCHANGED files
  BY DEF GetLoginToken, GenerateQRCode, PasswordLogin, PollForLogin, LoginFails, Local, files
<1>2. CASE LoginFails(p)
  BY <1>1, <1>2, PlainStep, PlainIdle DEF LoginFails, Ends
<1>3. CASE ~LoginFails(p)
  <2> DEFINE rec(at, session) == [proc[p] EXCEPT !.at = at, !.session = session]
  <2>1. PICK at, session : at \in {"token", "poll", "save"} /\ Becomes(p, rec(at, session))
    <3>1. \A at : [proc[p] EXCEPT !.at = at] = rec(at, proc[p].session)
      BY <1>0 DEF ProcRecords
    <3>2. CASE GetLoginToken(p) \/ GenerateQRCode(p)
      <4>1. Becomes(p, rec("token", proc[p].session)) \/ Becomes(p, rec("poll", proc[p].session))
        BY <3>1, <3>2 DEF GetLoginToken, GenerateQRCode, Goes
      <4> HIDE DEF rec
      <4> QED
        BY <4>1
    <3>3. CASE PasswordLogin(p) \/ PollForLogin(p)
      <4>1. \E session : Becomes(p, rec("save", session))
        BY <3>3 DEF PasswordLogin, PollForLogin
      <4> HIDE DEF rec
      <4> QED
        BY <4>1
    <3> QED
      BY <1>3, <3>2, <3>3
  <2> DEFINE r == [proc[p] EXCEPT !.at = at, !.session = session]
  <2>2. proc[p].user # AddonUser
    BY <1>0, <1>3, UsersAssumption DEF GetLoginToken, GenerateQRCode, PasswordLogin, PollForLogin,
         At, RecInv
  <2>3. r.at = at /\ r.user = proc[p].user /\ r.todo = proc[p].todo
    BY <1>0 DEF ProcRecords
  <2>4. RecPlain(r)
    BY <1>0, <2>1, <2>2, <2>3 DEF RecPlain
  <2> HIDE DEF r
  <2> QED
    BY <1>1, <2>1, <2>4, PlainStep DEF r
<1> QED
  BY <1>2, <1>3

(* A process whose user's file is written keeps its list.                  *)
LEMMA PlainSaved ==
  ASSUME Typed, PlainInv, NEW p \in Procs, Saved(p), proc[p].at \in SaveSteps
  PROVE  \A q \in Procs : RecPlain(proc'[q])
<1>0. proc[p] \in ProcRecords /\ RecPlain(proc[p])
  BY TypedHere DEF PlainInv
<1>1. CASE Ends(p)
  BY <1>1, OthersStay, PlainIdle DEF Ends, PlainInv
<1>2. CASE Goes(p, "read")
  <2> DEFINE r == [proc[p] EXCEPT !.at = "read"]
  <2>1. r.at = "read" /\ r.user = proc[p].user /\ r.todo = proc[p].todo /\ r.list = proc[p].list
    BY <1>0 DEF ProcRecords
  <2>2. RecPlain(r)
    BY <1>0, <2>1 DEF RecPlain, UserSteps, SaveSteps
  <2> HIDE DEF r
  <2> QED
    BY <1>2, <2>2, OthersStay DEF PlainInv, Goes, r
<1> QED
  BY <1>1, <1>2 DEF Saved

(* The steps on a user's file put no web user's session into the add-on's. *)
LEMMA PlainUser ==
  ASSUME Typed, PlainInv, NEW p \in Procs,
         TruncateUser(p) \/ FillUser(p) \/ FillGone(p) \/ DeleteUser(p)
  PROVE  PlainInv'
<1>0. proc[p] \in ProcRecords /\ RecInv(proc[p]) /\ RecPlain(proc[p])
  BY TypedHere DEF PlainInv
<1>1. Cameras(registry)' = Cameras(registry) /\ UNCHANGED registry
  BY DEF Cameras, TruncateUser, FillUser, FillGone, DeleteUser, Local, files, history
<1>2. WebUsers \subseteq Users /\ AddonUser \in Users
  BY DEF Users
<1>3. CASE TruncateUser(p)
  <2> DEFINE r == [proc[p] EXCEPT !.at = "fill user"]
  <2>1. /\ Becomes(p, r) /\ At(p, "save")
        /\ userFile' = [userFile EXCEPT ![proc[p].user] = Empty]
    BY <1>3 DEF TruncateUser, Goes
  <2>2. /\ r.at = "fill user" /\ r.user = proc[p].user /\ r.todo = proc[p].todo
        /\ r.list = proc[p].list /\ r.session = proc[p].session
    BY <1>0 DEF ProcRecords
  <2>3. RecPlain(r)
    BY <1>0, <2>1, <2>2 DEF RecPlain, At, UserSteps
  <2> HIDE DEF r
  <2>4. \A q \in Procs : RecPlain(proc'[q])
    BY <2>1, <2>3, OthersStay DEF PlainInv
  <2>5. userFile'[AddonUser] \notin WebUsers
    BY <1>2, <2>1, FilesAssumption DEF PlainInv, Typed, TypeOK
  <2> QED
    BY <1>1, <2>4, <2>5 DEF PlainInv
<1>4. CASE FillUser(p)
  <2>1. PICK content \in {proc[p].session, Broken} :
          userFile' = [userFile EXCEPT ![proc[p].user] = content]
    BY <1>4 DEF FillUser, Written
  <2>2. \A q \in Procs : RecPlain(proc'[q])
    BY <1>4, PlainSaved DEF FillUser, At, SaveSteps
  <2>3. proc[p].user = AddonUser => proc[p].session \notin WebUsers
    BY <1>0, <1>4 DEF RecPlain, FillUser, At
  <2>4. userFile'[AddonUser] \notin WebUsers
    BY <1>2, <2>1, <2>3, FilesAssumption DEF PlainInv, Typed, TypeOK
  <2> QED
    BY <1>1, <2>2, <2>4 DEF PlainInv
<1>5. CASE FillGone(p)
  <2>1. \A q \in Procs : RecPlain(proc'[q])
    BY <1>5, PlainSaved DEF FillGone, At, SaveSteps
  <2>2. UNCHANGED userFile
    BY <1>5 DEF FillGone, Local, files
  <2> QED
    BY <1>1, <2>1, <2>2 DEF PlainInv
<1>6. CASE DeleteUser(p)
  <2>1. proc[p].list = <<>> /\ proc[p].at = "delete"
    BY <1>0, <1>6 DEF RecInv, DeleteUser, At
  <2>2. ASSUME NEW q \in Procs PROVE RecPlain(proc'[q])
    <3>1. proc[q] \in ProcRecords /\ RecPlain(proc[q])
      BY TypedHere DEF PlainInv
    <3>2. CASE proc'[q] = proc[q]
      BY <3>1, <3>2
    <3>3. CASE q = p /\ proc'[q] = [proc[q] EXCEPT !.at = "read"]
      <4> DEFINE r == [proc[q] EXCEPT !.at = "read"]
      <4>1. r.at = "read" /\ r.todo = proc[q].todo /\ r.list = proc[q].list
        BY <3>1 DEF ProcRecords
      <4>2. RecPlain(r)
        BY <2>1, <3>1, <3>3, <4>1, PlainNothing DEF RecPlain
      <4> HIDE DEF r
      <4> QED
        BY <3>3, <4>2 DEF r
    <3>4. CASE proc'[q] = [proc[q] EXCEPT !.at = "fill gone"] /\ proc[q].at = "fill user"
      <4> DEFINE r == [proc[q] EXCEPT !.at = "fill gone"]
      <4>1. /\ r.at = "fill gone" /\ r.user = proc[q].user /\ r.todo = proc[q].todo
            /\ r.list = proc[q].list
        BY <3>1 DEF ProcRecords
      <4>2. RecPlain(r)
        BY <3>1, <3>4, <4>1 DEF RecPlain, UserSteps
      <4> HIDE DEF r
      <4> QED
        BY <3>4, <4>2 DEF r
    <3> QED
      BY <1>6, <3>2, <3>3, <3>4 DEF DeleteUser
  <2>3. userFile'[AddonUser] \notin WebUsers
    BY <1>2, <1>6, FilesAssumption DEF DeleteUser, PlainInv, Typed, TypeOK
  <2> QED
    BY <1>1, <2>2, <2>3 DEF PlainInv
<1> QED
  BY <1>3, <1>4, <1>5, <1>6

(* A refresh skips the add-on: it has no account to discover with.         *)
LEMMA PlainRefresh ==
  ASSUME Typed, PlainInv, NEW p \in Procs,
         SkipUser(p) \/ Discover(p) \/ RefreshEnds(p) \/ Stop(p)
  PROVE  PlainInv'
<1>0. proc[p] \in ProcRecords /\ RecPlain(proc[p])
  BY TypedHere DEF PlainInv
<1>1. UNCHANGED files
  BY DEF SkipUser, Discover, RefreshEnds, Stop, Local, files
<1>2. None \notin WebUsers
  BY FilesAssumption DEF Users
<1>3. CASE SkipUser(p)
  <2>1. PICK u \in Users : Becomes(p, [proc[p] EXCEPT !.todo[u] = None])
    BY <1>3 DEF SkipUser
  <2> DEFINE r == [proc[p] EXCEPT !.todo[u] = None]
  <2>2. At(p, "next")
    BY <1>3 DEF SkipUser
  <2>3. r.at = "next" /\ r.todo = [proc[p].todo EXCEPT ![u] = None]
    BY <1>0, <2>2 DEF ProcRecords, At
  <2>4. r.todo[AddonUser] \notin WebUsers
    BY <1>0, <1>2, <2>3 DEF RecPlain, ProcRecords, Users
  <2> HIDE DEF r
  <2>5. RecPlain(r)
    BY <2>3, <2>4 DEF RecPlain, UserSteps
  <2> QED
    BY <1>1, <2>1, <2>5, PlainStep DEF r
<1>4. CASE Discover(p)
  <2>1. PICK u, list :
          /\ u \in Users /\ proc[p].todo[u] \in WebUsers
          /\ Becomes(p, [proc[p] EXCEPT !.at = "read", !.user = u, !.list = list,
                                        !.todo[u] = None])
    BY <1>4 DEF Discover, GetAppInfo
  <2> DEFINE r == [proc[p] EXCEPT !.at = "read", !.user = u, !.list = list, !.todo[u] = None]
  <2>2. r.at = "read" /\ r.user = u /\ r.todo = [proc[p].todo EXCEPT ![u] = None]
    BY <1>0 DEF ProcRecords
  <2>3. u # AddonUser
    BY <1>0, <2>1 DEF RecPlain
  <2>4. r.todo[AddonUser] \notin WebUsers
    BY <1>0, <1>2, <2>2 DEF RecPlain, ProcRecords, Users
  <2> HIDE DEF r
  <2>5. RecPlain(r)
    BY <2>2, <2>3, <2>4 DEF RecPlain
  <2> QED
    BY <1>1, <2>1, <2>5, PlainStep DEF r
<1>5. CASE RefreshEnds(p) \/ Stop(p)
  BY <1>1, <1>5, PlainStep, PlainIdle DEF RefreshEnds, Stop, Ends
<1> QED
  BY <1>3, <1>4, <1>5

(* A process whose update is over holds no list for the add-on.            *)
LEMMA PlainUpdates ==
  ASSUME Typed, PlainInv, NEW p \in Procs, Updates(p)
  PROVE  \A q \in Procs : RecPlain(proc'[q])
<1>0. proc[p] \in ProcRecords /\ RecPlain(proc[p])
  BY TypedHere DEF PlainInv
<1>1. CASE proc[p].cmd = "refresh"
  <2> DEFINE r == [proc[p] EXCEPT !.at = "next", !.snap = None, !.list = <<>>, !.user = None]
  <2>1. r.at = "next" /\ r.todo = proc[p].todo
    BY <1>0 DEF ProcRecords
  <2>2. RecPlain(r)
    BY <1>0, <2>1 DEF RecPlain, UserSteps
  <2> HIDE DEF r
  <2> QED
    BY <1>1, <2>2, OthersStay DEF PlainInv, Updates, r
<1>2. CASE proc[p].cmd # "refresh"
  <2> DEFINE s == [Idle EXCEPT !.at = "serve"]
  <2>1. Becomes(p, Idle) \/ Becomes(p, s)
    BY <1>2 DEF Updates, Ends
  <2>2. RecPlain(s) /\ RecPlain(Idle)
    BY PlainIdle
  <2> HIDE DEF s
  <2> QED
    BY <2>1, <2>2, OthersStay DEF PlainInv
<1> QED
  BY <1>1, <1>2

(* An update puts one user's cameras last, behind all others' and never    *)
(* behind its own.                                                         *)
LEMMA PlainUpdated ==
  ASSUME NEW reg \in Registries, NEW user \in Users, NEW list \in Lists,
         Plain(reg), user = AddonUser => Distinct(list)
  PROVE  Plain(Updated(reg, user, list))
<1> DEFINE new == Updated(reg, user, list)
<1>1. \A u : <<u, u>> \notin new.before
  BY DEF Plain, Updated
<1>2. AddonUser \in Users
  BY DEF Users
<1>3. /\ new.cams[user] = list
      /\ \A v \in Users \ {user} : new.cams[v] = reg.cams[v]
  BY UpdatedType
<1> HIDE DEF new
<1>4. Distinct(new.cams[AddonUser])
  BY <1>2, <1>3 DEF Plain
<1> QED
  BY <1>1, <1>4 DEF Plain, new

(* The steps on the registry keep it plain.                                *)
LEMMA PlainRegistry ==
  ASSUME Typed, PlainInv, NEW p \in Procs,
         ReadRegistry(p) \/ TruncateRegistry(p) \/ FillRegistry(p) \/ Crash(p)
  PROVE  PlainInv'
<1>0. proc[p] \in ProcRecords /\ RecInv(proc[p]) /\ RecPlain(proc[p])
  BY TypedHere DEF PlainInv
<1>1. CASE ReadRegistry(p)
  <2>1. At(p, "read") /\ UNCHANGED files
    BY <1>1 DEF ReadRegistry
  <2>2. Cameras(registry)' = Cameras(registry)
    BY <2>1 DEF Cameras, files
  <2>3. CASE registry \in Unreadable
    <3>1. Updates(p)
      BY <1>1, <2>3 DEF ReadRegistry
    <3> QED
      BY <2>1, <2>2, <3>1, PlainUpdates DEF PlainInv, files
  <2>4. CASE registry \notin Unreadable
    <3> DEFINE r == [proc[p] EXCEPT !.at = "truncate", !.snap = Cameras(registry)]
    <3>1. Becomes(p, r)
      BY <1>1, <2>4 DEF ReadRegistry
    <3>2. /\ r.at = "truncate" /\ r.snap = Cameras(registry) /\ r.user = proc[p].user
          /\ r.list = proc[p].list /\ r.todo = proc[p].todo
      BY <1>0 DEF ProcRecords
    <3>3. Plain(Cameras(registry))
      BY <2>4 DEF PlainInv
    <3>4. RecPlain(r)
      BY <1>0, <2>1, <3>2, <3>3 DEF RecPlain, At, UserSteps
    <3> HIDE DEF r
    <3> QED
      BY <2>1, <3>1, <3>4, PlainStep
  <2> QED
    BY <2>3, <2>4
<1>2. CASE TruncateRegistry(p)
  <2> DEFINE r == [proc[p] EXCEPT !.at = "fill"]
  <2>1. Becomes(p, r) /\ At(p, "truncate") /\ UNCHANGED userFile /\ registry' = Empty
    BY <1>2 DEF TruncateRegistry, Goes
  <2>2. /\ r.at = "fill" /\ r.snap = proc[p].snap /\ r.user = proc[p].user
        /\ r.list = proc[p].list /\ r.todo = proc[p].todo
    BY <1>0 DEF ProcRecords
  <2>3. RecPlain(r)
    BY <1>0, <2>1, <2>2 DEF RecPlain, At, UserSteps
  <2> HIDE DEF r
  <2> QED
    BY <2>1, <2>3, OthersStay DEF PlainInv, Unreadable
<1>3. CASE FillRegistry(p)
  <2> DEFINE u == proc[p].user
             new == Updated(proc[p].snap, u, proc[p].list)
  <2>1. Updates(p) /\ At(p, "fill") /\ registry' \in {new, Broken} /\ UNCHANGED userFile
    BY <1>3 DEF FillRegistry, Written
  <2>2. u \in Users /\ proc[p].snap \in Registries /\ proc[p].list \in Lists
    BY <1>0, <2>1 DEF At, RecInv, UserSteps, ProcRecords
  <2>3. new \in Registries
    BY <2>2, UpdatedType
  <2>4. Plain(proc[p].snap) /\ (u = AddonUser => Distinct(proc[p].list))
    BY <1>0, <2>1 DEF RecPlain, At, UserSteps
  <2>5. Plain(new)
    BY <2>2, <2>4, PlainUpdated
  <2>6. registry' \notin Unreadable => Cameras(registry)' = new
    BY <2>1, <2>3, FilesAssumption DEF Cameras, Unreadable
  <2>7. \A q \in Procs : RecPlain(proc'[q])
    BY <2>1, PlainUpdates
  <2> HIDE DEF new
  <2> QED
    BY <2>1, <2>5, <2>6, <2>7 DEF PlainInv
<1>4. CASE Crash(p)
  <2>1. Becomes(p, Idle) /\ registry' \in {registry, Broken}
    BY <1>4 DEF Crash, Ends, files
  <2>2. \A q \in Procs : RecPlain(proc'[q])
    BY <2>1, OthersStay, PlainIdle DEF PlainInv
  <2>3. \A v \in Users : userFile'[v] \in {userFile[v], Broken}
    BY <1>4 DEF Crash, files, Typed, TypeOK
  <2>4. userFile'[AddonUser] \notin WebUsers
    BY <2>3, FilesAssumption DEF PlainInv, Users
  <2>5. registry' \notin Unreadable => registry' = registry /\ Cameras(registry)' = Cameras(registry)
    BY <2>1 DEF Unreadable, Cameras
  <2> QED
    BY <2>1, <2>2, <2>4, <2>5 DEF PlainInv
<1> QED
  BY <1>1, <1>2, <1>3, <1>4

(* Every step keeps the add-on's cameras on paths of their own.            *)
LEMMA PlainInductive == Typed /\ PlainInv /\ [Next]_vars => PlainInv'
<1> SUFFICES ASSUME Typed, PlainInv, [Next]_vars PROVE PlainInv'
  OBVIOUS
<1>1. CASE UNCHANGED vars
  BY <1>1 DEF PlainInv, vars, files, Cameras
<1>2. CASE Next
  BY <1>2, PlainLaunches, PlainLogin, PlainUser, PlainRefresh, PlainRegistry DEF Next
<1> QED
  BY <1>1, <1>2

(* A camera that only shares its path with none, or with entries of its    *)
(* own plain list, is what a request for its path finds.                   *)
LEMMA Found ==
  ASSUME Typed, PlainInv, registry \notin Unreadable \cup {None},
         NEW u \in ListUsers, NEW i \in DOMAIN registry.cams[u],
         NEW path, path = registry.cams[u][i].path,
         \A e \in Entries(path) : e # <<u, i>> => e[1] = u /\ u = AddonUser
  PROVE  FindCamera(path) = {<<u, i>>}
<1>1. registry \in Registries /\ Cameras(registry) = registry /\ u \in Users
  BY DEF Typed, TypeOK, Cameras, Unreadable, ListUsers
<1>2. Plain(registry)
  BY <1>1 DEF PlainInv
<1>3. registry.cams[u] \in Lists
  BY <1>1 DEF Registries
<1>4. i \in Int
  BY <1>3, ListsNumbered
<1>5. \A e : e \in Entries(path) <=>
               \E v \in ListUsers : \E j \in DOMAIN registry.cams[v] :
                 registry.cams[v][j].path = path /\ e = <<v, j>>
  BY DEF Entries
<1>6. <<u, i>> \in Entries(path)
  BY <1>5
<1>7. ASSUME NEW e \in Entries(path) PROVE e = <<u, i>>
  <2> SUFFICES ASSUME e # <<u, i>> PROVE FALSE
    OBVIOUS
  <2>1. PICK v \in ListUsers : \E j \in DOMAIN registry.cams[v] :
          registry.cams[v][j].path = path /\ e = <<v, j>>
    BY <1>5, <1>7
  <2>2. PICK j \in DOMAIN registry.cams[v] : registry.cams[v][j].path = path /\ e = <<v, j>>
    BY <2>1
  <2>3. v = u /\ u = AddonUser
    BY <1>7, <2>2
  <2>4. j = i
    BY <1>2, <2>2, <2>3 DEF Plain, Distinct
  <2> QED
    BY <2>2, <2>3, <2>4
<1>8. ~Precedes(<<u, i>>, <<u, i>>)
  BY <1>2, <1>4 DEF Precedes, Plain
<1> QED
  BY <1>6, <1>7, <1>8 DEF FindCamera

(* Each of a camera's announced URLs leads to it and is described with the *)
(* codec that is sent there, but for the exceptions the property names.    *)
THEOREM EndpointsWorkHolds == Spec => []EndpointsWork
<1>1. Typed /\ PlainInv => EndpointsWork
  <2> SUFFICES ASSUME Typed, PlainInv, registry \notin Unreadable \cup {None},
                      NEW u \in ListUsers, NEW i \in DOMAIN registry.cams[u]
               PROVE  LET cam == registry.cams[u][i]
                          shadowed == \E e \in Entries(cam.path) :
                                        e # <<u, i>> /\ (e[1] # u \/ u # AddonUser)
                      IN \A tail \in Announced(u, cam) :
                           LET asked == ExtractCameraPath(cam.path, tail) IN
                           \/ asked.path = None /\ cam.path \in {<<"hd">>, <<"sd">>}
                           \/ /\ shadowed \/ FindCamera(asked.path) = {<<u, i>>}
                              /\ \/ cam.skill = None
                                 \/ asked.resolution = "sd" /\ ~OneCodec(cam.skill)
                                 \/ DescribedVideo(cam.skill)
                                      \in {"none", SentVideo(cam.skill, asked.resolution)}
    BY DEF EndpointsWork
  <2> DEFINE cam == registry.cams[u][i]
             shadowed == \E e \in Entries(cam.path) :
                           e # <<u, i>> /\ (e[1] # u \/ u # AddonUser)
  <2>1. cam.skill = None \/ cam.skill.videos \in Seq(Video)
    <3>1. registry \in Registries /\ u \in Users
      BY DEF Typed, TypeOK, Unreadable, ListUsers
    <3>2. registry.cams[u] \in Lists
      BY <3>1 DEF Registries
    <3> QED
      BY <3>2, SkillsAssumption DEF Video
  <2>2. \A path : \A tail \in {"hd", "sd", None} :
          LET asked == ExtractCameraPath(path, tail)
          IN /\ asked.path = path \/ (asked.path = None /\ path \in {<<"hd">>, <<"sd">>})
             /\ asked.path = path => asked.resolution \in {"hd", "sd"}
    BY DEF ExtractCameraPath
  <2>3. ~shadowed => FindCamera(cam.path) = {<<u, i>>}
    BY Found
  <2>4. ASSUME cam.skill # None, NEW resolution \in {"hd", "sd"},
               resolution = "hd" \/ OneCodec(cam.skill)
        PROVE  DescribedVideo(cam.skill) \in {"none", SentVideo(cam.skill, resolution)}
    BY <2>1, <2>4, CodecDescribed
  <2>5. Announced(u, cam) \subseteq {"hd", "sd", None}
    BY DEF Announced
  <2> HIDE DEF cam, shadowed
  <2>6. ASSUME NEW tail \in Announced(u, cam)
        PROVE  LET asked == ExtractCameraPath(cam.path, tail) IN
               \/ asked.path = None /\ cam.path \in {<<"hd">>, <<"sd">>}
               \/ /\ shadowed \/ FindCamera(asked.path) = {<<u, i>>}
                  /\ \/ cam.skill = None
                     \/ asked.resolution = "sd" /\ ~OneCodec(cam.skill)
                     \/ DescribedVideo(cam.skill)
                          \in {"none", SentVideo(cam.skill, asked.resolution)}
    <3> DEFINE asked == ExtractCameraPath(cam.path, tail)
    <3>1. CASE asked.path # cam.path
      BY <2>2, <2>5, <3>1
    <3>2. CASE asked.path = cam.path
      <4>1. asked.resolution \in {"hd", "sd"}
        BY <2>2, <2>5, <3>2
      <4>2. shadowed \/ FindCamera(asked.path) = {<<u, i>>}
        BY <2>3, <3>2
      <4> HIDE DEF asked
      <4>3. \/ cam.skill = None
            \/ asked.resolution = "sd" /\ ~OneCodec(cam.skill)
            \/ DescribedVideo(cam.skill) \in {"none", SentVideo(cam.skill, asked.resolution)}
        BY <2>4, <4>1
      <4> QED
        BY <4>2, <4>3 DEF asked
    <3> QED
      BY <3>1, <3>2
  <2> QED
    BY <2>6 DEF cam, shadowed
<1> QED
  BY <1>1, PlainInit, PlainInductive, TypeCorrect, PTL DEF Spec
=============================================================================
