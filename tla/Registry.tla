------------------------------ MODULE Registry ------------------------------
(***************************************************************************)
(* The files under .tuya-data and the commands that change them, each a    *)
(* process of its own: bridge/pkg/storage/manager.go, cmd/auth/auth.go,    *)
(* cmd/cameras/cameras.go, cmd/addon/addon.go, cmd/direct/direct.go,       *)
(* cmd/rtsp/rtsp.go and the web client of pkg/tuya/api.go they call.       *)
(*                                                                         *)
(* A user is a file name (region and e-mail); the account whose session    *)
(* its file holds is named by the user it belongs to.  Nothing locks a     *)
(* file: os.WriteFile truncates it in one step and fills it in another,    *)
(* and a process may be killed between the two or in the middle of the     *)
(* second.  The commands that only print are left out, as are failures of  *)
(* the disk itself.                                                        *)
(***************************************************************************)
EXTENDS Endpoints

CONSTANTS Procs,
          WebUsers, AddonUser, DirectUser,
          Homes,          \* per web user: its homes, each the devices in its rooms
          Shared,         \* per web user: the devices of the homes shared with it
          Category, NameOf, SkillOf,      \* per device
          Configs,        \* camera lists a configuration of the add-on may hold
          DirectCamera,   \* the camera named on the command line of direct
          Empty, Broken,  \* a file truncated to nothing; one that is no JSON
          MaxLaunches, MaxCrashes

Users == WebUsers \cup {AddonUser, DirectUser}

VARIABLES
  registry,   \* cameras.json: None, Empty, Broken or what it lists
  userFile,   \* per user: None, Empty, Broken or the account of the session
  proc,       \* per process: where it is and what it holds
  launches, crashes,                      \* bounds
  stale,      \* per process: users whose cameras changed since it read the registry
  excused,    \* users whose saved cameras such a process may have overwritten
  latest,     \* per user: the cameras last reported saved
  story,      \* users whose cameras may outlive their file, and why
  confirmed   \* users for whom another account's login was accepted

files == <<registry, userFile>>
history == <<stale, excused, latest, story, confirmed>>
vars == <<files, proc, launches, crashes, history>>

-----------------------------------------------------------------------------
(* What cameras.json lists: per user its cameras, and which user's come    *)
(* before which.  Every update puts its user's cameras last.               *)

Unreadable == {Empty, Broken}
NoCameras == [cams |-> [u \in Users |-> <<>>], before |-> {}]
Cameras(reg) == IF reg = None THEN NoCameras ELSE reg

(* Mutant: the user's earlier cameras are kept in front of the new ones.   *)
MutUpdated(reg, user, list) ==
  [cams |-> [reg.cams EXCEPT ![user] = @ \o list],
   before |-> {b \in reg.before : b[1] # user} \cup ((Users \ {user}) \X {user})]

Updated(reg, user, list) ==
  [cams |-> [reg.cams EXCEPT ![user] = list],
   before |-> {b \in reg.before : b[1] # user} \cup ((Users \ {user}) \X {user})]

(* The users ListUsers returns: files that cannot be read are skipped.     *)
ListUsers == {u \in Users : userFile[u] \in Users}

-----------------------------------------------------------------------------
(* Discovery: what each request may answer, a failure included.            *)

(* A session without cookies, as addon and direct store it, is refused.    *)
GetAppInfo(account) == IF account \in WebUsers THEN BOOLEAN ELSE {FALSE}

(* The homes listed whose rooms are: a list that fails is skipped.         *)
GetRoomLists(account) == SUBSET DOMAIN Homes[account]
GetSharedHomeList(account) == {<<>>, Shared[account]}

AddCamera(devices, d) ==
  IF Category[d] \in {"sp", "dghsxj"} /\ ~Contains(devices, d) THEN Append(devices, d) ELSE devices

(* The devices whose WebRTC configuration is answered.                     *)
GetWebRTCConfigs(devices) == SUBSET Range(devices)

Described(devices) ==
  [i \in 1..Len(devices) |->
     LET d == devices[i]
     IN [id |-> d, path |-> SanitizeRTSPPath(NameOf[d], d), skill |-> SkillOf[d]]]
WithConfig(devices, answered) == Described(SelectSeq(devices, LAMBDA d : d \in answered))

(* The cameras in the rooms listed and in the homes shared.                *)
DevicesOf(account, homes, shared) ==
  LET rooms == FlattenSeq([i \in DOMAIN Homes[account] |->
                             IF i \in homes THEN Homes[account][i] ELSE <<>>])
  IN FoldLeft(AddCamera, <<>>, rooms \o shared)

Discoveries(account) ==
  UNION {LET devices == DevicesOf(account, homes, shared)
         IN {WithConfig(devices, answered) : answered \in GetWebRTCConfigs(devices)} :
           homes \in GetRoomLists(account), shared \in GetSharedHomeList(account)}

(* What addon and direct register: no skill is stored.                     *)
NoSkill(cam) == [id |-> cam.id, path |-> cam.path, skill |-> None]
AddonCameras(config) ==
  LET cams == AssignPaths(config) IN [i \in DOMAIN cams |-> NoSkill(cams[i])]
DirectCameras ==
  <<NoSkill([id |-> DirectCamera.id, path |-> SanitizeRTSPPath(DirectCamera.name, DirectCamera.id)])>>

Lists == (UNION {Discoveries(a) : a \in WebUsers})
           \cup {AddonCameras(c) : c \in Configs} \cup {DirectCameras, <<>>}

(* What cameras.json may list.                                             *)
Registries == [cams : [Users -> Lists], before : SUBSET (Users \X Users)]

ASSUME FilesAssumption ==
  /\ None \notin Users \cup {Empty, Broken} \cup Registries
  /\ Empty \notin Users \cup {Broken} \cup Registries
  /\ Broken \notin Users \cup Registries
ASSUME UsersAssumption == AddonUser \notin WebUsers /\ DirectUser \notin WebUsers
(* A list's cameras are numbered as far as the list is long.               *)
ASSUME ConfigsAssumption ==
  \A config \in Configs :
    /\ config \in Seq([id : STRING, name : Seq(STRING)])
    /\ \A i \in DOMAIN config :
         /\ config[i].id # NoId => Prefix[config[i].id] \in STRING
         /\ i > 1 => i \in DOMAIN Decimal /\ Decimal[i] \in STRING
(* A camera's skill, where there is one, lists its videos.                 *)
ASSUME SkillsAssumption ==
  \A list \in Lists : \A i \in DOMAIN list :
    list[i].skill = None \/ list[i].skill.videos \in Seq([type : Nat, size : Nat, codec : Nat])
ASSUME BoundsAssumption == MaxLaunches \in Nat /\ MaxCrashes \in Nat

-----------------------------------------------------------------------------
Idle == [at |-> "idle", cmd |-> "none", user |-> None, session |-> None,
         todo |-> [u \in Users |-> None], list |-> <<>>, snap |-> None]

Init ==
  /\ registry = None
  /\ userFile \in {f \in [Users -> Users \cup {None}] :
                     \A u \in Users : f[u] \in {None} \cup (WebUsers \cap {u})}
  /\ proc = [p \in Procs |-> Idle]
  /\ launches = 0 /\ crashes = 0
  /\ stale = [p \in Procs |-> {}]
  /\ excused = {} /\ story = {} /\ confirmed = {}
  /\ latest = [u \in Users |-> <<>>]

At(p, at) == proc[p].at = at
Becomes(p, r) == proc' = [proc EXCEPT ![p] = r]
Goes(p, at) == Becomes(p, [proc[p] EXCEPT !.at = at])
Ends(p) == Becomes(p, Idle)

(* p has read the registry and is to write it.                             *)
Holds(p) == proc[p].at \in {"truncate", "fill"}

-----------------------------------------------------------------------------
(* Launching a command, with the checks it begins with.                    *)

Launch(p, r) ==
  /\ At(p, "idle") /\ launches < MaxLaunches
  /\ launches' = launches + 1
  /\ Becomes(p, r)
  /\ UNCHANGED <<files, crashes, history>>

(* auth add and auth refresh: a user file that cannot be read is an error. *)
LaunchLogin(p) ==
  \E u \in WebUsers :
    /\ userFile[u] \notin Unreadable
    /\ Launch(p, [Idle EXCEPT !.at = "login", !.cmd = "auth", !.user = u])

(* auth remove takes any region.                                           *)
LaunchRemove(p) ==
  \E u \in ListUsers :
    Launch(p, [Idle EXCEPT !.at = "delete", !.cmd = "remove", !.user = u])

(* Mutant: a user file that cannot be read is not skipped.                 *)
MutLaunchRefresh(p) ==
  /\ ListUsers # {}
  /\ Launch(p, [Idle EXCEPT !.at = "next", !.cmd = "refresh", !.todo = userFile])

LaunchRefresh(p) ==
  /\ ListUsers # {}
  /\ Launch(p, [Idle EXCEPT !.at = "next", !.cmd = "refresh",
                  !.todo = [u \in Users |-> IF u \in ListUsers THEN userFile[u] ELSE None]])

LaunchAddon(p) ==
  \E config \in Configs \ {<<>>} :
    Launch(p, [Idle EXCEPT !.at = "save", !.cmd = "addon", !.user = AddonUser,
                 !.session = AddonUser, !.list = AddonCameras(config)])

LaunchDirect(p) ==
  Launch(p, [Idle EXCEPT !.at = "save", !.cmd = "direct", !.user = DirectUser,
               !.session = DirectUser, !.list = DirectCameras])

(* rtsp start.                                                             *)
LaunchServer(p) ==
  /\ ListUsers # {}
  /\ registry \notin Unreadable \cup {None}
  /\ \E u \in Users : registry.cams[u] # <<>>
  /\ Launch(p, [Idle EXCEPT !.at = "serve"])

-----------------------------------------------------------------------------
(* Logging in.                                                             *)

Local(p) == UNCHANGED <<files, launches, crashes, history>>

GetLoginToken(p) == At(p, "login") /\ Goes(p, "token") /\ Local(p)
GenerateQRCode(p) == At(p, "login") /\ Goes(p, "poll") /\ Local(p)

PasswordLogin(p) ==
  /\ At(p, "token")
  /\ Becomes(p, [proc[p] EXCEPT !.at = "save", !.session = proc[p].user])
  /\ Local(p)

(* Mutant: whoever scanned the code is taken for the user.                 *)
MutPollForLogin(p) ==
  /\ At(p, "poll")
  /\ \E account \in WebUsers :
       Becomes(p, [proc[p] EXCEPT !.at = "save", !.session = account])
  /\ UNCHANGED <<files, launches, crashes, history>>

(* The code may be scanned with any account; one with another e-mail is    *)
(* accepted only when the operator says so.                                *)
PollForLogin(p) ==
  /\ At(p, "poll")
  /\ \E account \in WebUsers :
       /\ Becomes(p, [proc[p] EXCEPT !.at = "save", !.session = account])
       /\ confirmed' = IF account = proc[p].user THEN confirmed
                       ELSE confirmed \cup {proc[p].user}
  /\ UNCHANGED <<files, launches, crashes, stale, excused, latest, story>>

(* A request fails, is refused (which GetLoginToken's caller does not      *)
(* survive) or runs out of its sixty tries; the operator declines.         *)
LoginFails(p) == proc[p].at \in {"login", "token", "poll"} /\ Ends(p) /\ Local(p)

-----------------------------------------------------------------------------
(* The user's file.                                                        *)

(* The bytes of a writer land on what others wrote since it truncated.     *)
Written(content, now) == IF now = Empty THEN {content} ELSE {content, Broken}

TruncateUser(p) ==
  /\ At(p, "save")
  /\ userFile' = [userFile EXCEPT ![proc[p].user] = Empty]
  /\ story' = story \ {proc[p].user}
  /\ Goes(p, "fill user")
  /\ UNCHANGED <<registry, launches, crashes, stale, excused, latest, confirmed>>

(* The add-on gives up when no camera of its configuration is valid.       *)
Saved(p) ==
  IF proc[p].cmd = "auth" \/ proc[p].list = <<>> THEN Ends(p) ELSE Goes(p, "read")

FillUser(p) ==
  /\ At(p, "fill user")
  /\ \E content \in Written(proc[p].session, userFile[proc[p].user]) :
       userFile' = [userFile EXCEPT ![proc[p].user] = content]
  /\ Saved(p)
  /\ UNCHANGED <<registry, launches, crashes, history>>

(* The file it had opened was deleted since.                               *)
FillGone(p) == At(p, "fill gone") /\ Saved(p) /\ Local(p)

(* RemoveUser's first half.                                                *)
DeleteUser(p) ==
  /\ At(p, "delete")
  /\ userFile' = [userFile EXCEPT ![proc[p].user] = None]
  /\ proc' = [q \in Procs |->
                IF q = p THEN [proc[q] EXCEPT !.at = "read"]
                ELSE IF proc[q].user = proc[p].user /\ proc[q].at = "fill user"
                THEN [proc[q] EXCEPT !.at = "fill gone"]
                ELSE proc[q]]
  /\ story' = story \cup {proc[p].user}
  /\ UNCHANGED <<registry, launches, crashes, stale, excused, latest, confirmed>>

-----------------------------------------------------------------------------
(* cameras refresh, one user after the other.                              *)

SkipUser(p) ==
  /\ At(p, "next")
  /\ \E u \in Users :
       /\ proc[p].todo[u] # None
       /\ FALSE \in GetAppInfo(proc[p].todo[u])
       /\ Becomes(p, [proc[p] EXCEPT !.todo[u] = None])
  /\ Local(p)

Discover(p) ==
  /\ At(p, "next")
  /\ \E u \in Users :
       /\ proc[p].todo[u] # None
       /\ TRUE \in GetAppInfo(proc[p].todo[u])
       /\ \E list \in Discoveries(proc[p].todo[u]) :
            Becomes(p, [proc[p] EXCEPT !.at = "read", !.user = u, !.list = list,
                                       !.todo[u] = None])
  /\ Local(p)

RefreshEnds(p) ==
  /\ At(p, "next") /\ \A u \in Users : proc[p].todo[u] = None
  /\ Ends(p) /\ Local(p)

-----------------------------------------------------------------------------
(* UpdateCamerasForUser and removeCamerasForUser: read, truncate, fill.    *)

(* Where a command goes once its update is over: addon and direct only     *)
(* warn when it failed.                                                    *)
Updates(p) ==
  CASE proc[p].cmd = "refresh" -> Becomes(p, [proc[p] EXCEPT !.at = "next", !.snap = None,
                                                !.list = <<>>, !.user = None])
    [] proc[p].cmd = "remove"  -> Ends(p)
    [] OTHER -> Becomes(p, [Idle EXCEPT !.at = "serve"])

(* Mutant: a registry that cannot be read is taken for an empty one.       *)
MutReadRegistry(p) ==
  /\ At(p, "read")
  /\ Becomes(p, [proc[p] EXCEPT !.at = "truncate",
                   !.snap = IF registry \in Unreadable THEN NoCameras ELSE Cameras(registry)])
  /\ UNCHANGED <<files, launches, crashes, history>>

ReadRegistry(p) ==
  /\ At(p, "read")
  /\ IF registry \in Unreadable THEN Updates(p)
     ELSE Becomes(p, [proc[p] EXCEPT !.at = "truncate", !.snap = Cameras(registry)])
  /\ UNCHANGED <<files, launches, crashes, history>>

TruncateRegistry(p) ==
  /\ At(p, "truncate")
  /\ registry' = Empty
  /\ Goes(p, "fill")
  /\ UNCHANGED <<userFile, launches, crashes, history>>

(* Mutant: a removal writes the registry back as it was.                   *)
MutFillRegistry(p) ==
  LET u == proc[p].user
      new == IF proc[p].cmd = "remove" THEN proc[p].snap
             ELSE Updated(proc[p].snap, u, proc[p].list)
  IN
  /\ At(p, "fill")
  /\ registry' \in Written(new, registry)
  /\ Updates(p)
  /\ latest' = [latest EXCEPT ![u] = new.cams[u]]
  /\ stale' = [q \in Procs |-> IF q # p /\ Holds(q) THEN stale[q] \cup {u} ELSE {}]
  /\ excused' = (excused \cup stale[p]) \ {u}
  /\ story' = IF proc[p].cmd = "remove" THEN story \ {u}
              ELSE IF userFile[u] = None THEN story \cup {u} ELSE story
  /\ UNCHANGED <<userFile, launches, crashes, confirmed>>

FillRegistry(p) ==
  LET u == proc[p].user IN
  /\ At(p, "fill")
  /\ registry' \in Written(Updated(proc[p].snap, u, proc[p].list), registry)
  /\ Updates(p)
  /\ latest' = [latest EXCEPT ![u] = proc[p].list]
  /\ stale' = [q \in Procs |-> IF q # p /\ Holds(q) THEN stale[q] \cup {u} ELSE {}]
  /\ excused' = (excused \cup stale[p]) \ {u}
  /\ story' = IF proc[p].cmd = "remove" THEN story \ {u}
              ELSE IF userFile[u] = None THEN story \cup {u} ELSE story
  /\ UNCHANGED <<userFile, launches, crashes, confirmed>>

-----------------------------------------------------------------------------
(* A server is stopped, or does not start because its port is taken.       *)
Stop(p) == At(p, "serve") /\ Ends(p) /\ Local(p)

(* A process is killed; one that was writing may leave part of its file.   *)
(* While it logs in or serves that is LoginFails or Stop.                  *)
Crash(p) ==
  /\ proc[p].at \notin {"idle", "login", "token", "poll", "serve"}
  /\ crashes < MaxCrashes
  /\ crashes' = crashes + 1
  /\ Ends(p)
  /\ \/ UNCHANGED files
     \/ At(p, "fill") /\ registry' = Broken /\ UNCHANGED userFile
     \/ /\ At(p, "fill user")
        /\ userFile' = [userFile EXCEPT ![proc[p].user] = Broken]
        /\ UNCHANGED registry
  /\ stale' = [stale EXCEPT ![p] = {}]
  /\ UNCHANGED <<launches, excused, latest, story, confirmed>>

Next ==
  \E p \in Procs :
    \/ LaunchLogin(p) \/ LaunchRemove(p) \/ LaunchRefresh(p)
    \/ LaunchAddon(p) \/ LaunchDirect(p) \/ LaunchServer(p)
    \/ GetLoginToken(p) \/ GenerateQRCode(p) \/ PasswordLogin(p) \/ PollForLogin(p)
    \/ LoginFails(p)
    \/ TruncateUser(p) \/ FillUser(p) \/ FillGone(p) \/ DeleteUser(p)
    \/ SkipUser(p) \/ Discover(p) \/ RefreshEnds(p)
    \/ ReadRegistry(p) \/ TruncateRegistry(p) \/ FillRegistry(p)
    \/ Stop(p) \/ Crash(p)

Spec == Init /\ [][Next]_vars

-----------------------------------------------------------------------------
(* Requests to a server: DESCRIBE asks for a path.                         *)

(* The entries findCamera would return: those on the path whose user's     *)
(* session can be read, the first of them.                                 *)
Entries(path) ==
  UNION {{<<u, i>> : i \in {j \in DOMAIN registry.cams[u] : registry.cams[u][j].path = path}} :
           u \in ListUsers}

Precedes(e, f) == (e[1] = f[1] /\ e[2] < f[2]) \/ <<e[1], f[1]>> \in registry.before

FindCamera(path) == {e \in Entries(path) : \A f \in Entries(path) : ~Precedes(f, e)}

(* What printAvailableEndpoints appends to a camera's path; runDirect      *)
(* prints an "sd" endpoint of its own.                                     *)
Announced(u, cam) ==
  (IF cam.skill # None /\ cam.skill.clarity THEN {"hd", "sd"} ELSE {None})
    \cup (IF u = DirectUser THEN {"sd"} ELSE {})

-----------------------------------------------------------------------------
(* Invariants and properties.                                              *)

ProcRecords ==
  [at : {"idle", "login", "token", "poll", "save", "fill user", "fill gone", "delete",
         "next", "read", "truncate", "fill", "serve"},
   cmd : {"none", "auth", "remove", "refresh", "addon", "direct"},
   user : Users \cup {None}, session : Users \cup {None},
   todo : [Users -> Users \cup {None}], list : Lists, snap : {None} \cup Registries]

(* The values the variables may take.                                      *)
TypeOK ==
  /\ registry \in {None, Empty, Broken} \cup Registries
  /\ userFile \in [Users -> Users \cup {None, Empty, Broken}]
  /\ proc \in [Procs -> ProcRecords]
  /\ launches \in 0..MaxLaunches /\ crashes \in 0..MaxCrashes
  /\ stale \in [Procs -> SUBSET Users]
  /\ excused \subseteq Users /\ story \subseteq Users /\ confirmed \subseteq WebUsers
  /\ latest \in [Users -> Lists]

(* What a command reported saved is what the registry lists, except for    *)
(* users whose update came between another command's reading and writing   *)
(* the registry; and the registry is only ever found truncated to nothing  *)
(* while somebody writes it or after somebody was killed doing so          *)
(* (UpdateCamerasForUser, removeCamerasForUser, SaveCameraRegistry).       *)
UpdatesKept ==
  /\ registry \notin Unreadable =>
       \A u \in Users \ excused : Cameras(registry).cams[u] = latest[u]
  /\ registry = Empty => crashes > 0 \/ \E p \in Procs : At(p, "fill")

(* Once auth remove is done, no camera of the user is listed; those of a   *)
(* user without a file are being removed, belong to a removal that failed  *)
(* or was killed halfway, or were put back by a command that had read the  *)
(* registry or the user's session before (RemoveUser against               *)
(* runRefreshCameras and runAddon).                                        *)
RemovedIsGone ==
  registry \notin Unreadable =>
    \A u \in Users \ (story \cup excused) :
      userFile[u] = None => Cameras(registry).cams[u] = <<>>

(* The cameras listed for a user are ones its own account could see,       *)
(* unless the operator let another account log in for it                   *)
(* (performQRAuthentication, discoverCamerasForUser).                      *)
CamerasOwned ==
  registry \notin Unreadable =>
    \A u \in WebUsers \ confirmed :
      Cameras(registry).cams[u] \in Discoveries(u) \cup {<<>>}

(* Each of a camera's announced URLs leads to it, and the codec named in   *)
(* the answer to its DESCRIBE is the one that is sent there while the      *)
(* device has the skill it had at the last refresh.  The exceptions: a     *)
(* path that is a resolution's name; a path that a camera of another user  *)
(* has too, or one of the same user unless assignPaths made them distinct; *)
(* cameras without a stored skill, always described as H264; and the "sd"  *)
(* URL of a camera whose streams differ in codec, described like its "hd"  *)
(* one (extractCameraPath, findCamera, generateSDP, assignPaths, Start).   *)
EndpointsWork ==
  registry \notin Unreadable \cup {None} =>
    \A u \in ListUsers : \A i \in DOMAIN registry.cams[u] :
      LET cam == registry.cams[u][i]
          shadowed == \E e \in Entries(cam.path) :
                        e # <<u, i>> /\ (e[1] # u \/ u # AddonUser)
      IN \A tail \in Announced(u, cam) :
           LET asked == ExtractCameraPath(cam.path, tail) IN
           \/ asked.path = None /\ cam.path \in {<<"hd">>, <<"sd">>}
           \/ /\ shadowed \/ FindCamera(asked.path) = {<<u, i>>}
              /\ \/ cam.skill = None
                 \/ asked.resolution = "sd" /\ ~OneCodec(cam.skill)
                 \/ DescribedVideo(cam.skill) \in {"none", SentVideo(cam.skill, asked.resolution)}

(* Nobody repairs a registry that cannot be read: unless somebody is       *)
(* already writing it, every command leaves it so, and those that need it  *)
(* fail from then on (GetCameraRegistry).                                  *)
Writing == \E p \in Procs : Holds(p)
BrokenStays ==
  [][~Writing /\ registry \in Unreadable => registry' = registry /\ ~Writing']_vars
=============================================================================
