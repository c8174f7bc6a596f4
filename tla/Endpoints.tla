----------------------------- MODULE Endpoints -----------------------------
(***************************************************************************)
(* What a camera is served under and described as: the RTSP paths given to *)
(* cameras (bridge/pkg/storage/path.go, bridge/cmd/addon/addon.go), how a  *)
(* request's URL leads back to one (bridge/pkg/rtsp/protocol.go,           *)
(* server.go), and which codec the description names and the bridge sends  *)
(* (protocol.go, bridge/pkg/tuya/helpers.go).  Pure operators, used by     *)
(* module Registry.                                                        *)
(*                                                                         *)
(* A name is the sequence of its parts between spaces, slashes,            *)
(* backslashes and underscores, all of which SanitizeRTSPPath turns into   *)
(* underscores: "" is <<"">>, "/" is <<"", "">>.  A path is a "/" and such *)
(* a sequence, joined with underscores.  Left out: characters that mean    *)
(* something in a URL (%, ?, #), which nobody escapes.                     *)
(***************************************************************************)
EXTENDS Naturals, Sequences, SequencesExt

CONSTANTS None,
          Prefix,     \* of an id: its first six characters
          Decimal     \* of a number: the path part it is printed as

(* Numbers that are printed alike are equal.                               *)
ASSUME DecimalAssumption ==
  \A i, j \in DOMAIN Decimal : Decimal[i] = Decimal[j] => i = j

-----------------------------------------------------------------------------
(* Paths.                                                                  *)

Generic == {<<"">>, <<"", "">>}
SanitizeRTSPPath(name, id) == IF name \in Generic THEN <<id>> ELSE name

Numbered(path, i) == IF i = 1 THEN path ELSE Append(path, Decimal[i])

(* Mutant: an id's suffix is taken to be free.                             *)
MutFreePath(base, suffix, taken) == Append(base, suffix)

(* The first of base_suffix, base_suffix_2, base_suffix_3, ... that is     *)
(* free; numbers are parts of their own.                                   *)
FreePath(base, suffix, taken) ==
  LET at(i) == Numbered(Append(base, suffix), i)
      n == CHOOSE i \in 1..(Cardinality(taken) + 1) :
             at(i) \notin taken /\ \A j \in 1..(i - 1) : at(j) \in taken
  IN at(n)

NoId == ""

(* One round of assignPaths: entries without an id or with one seen before *)
(* are skipped.                                                            *)
AssignPath(out, cam) ==
  LET base  == SanitizeRTSPPath(cam.name, cam.id)
      taken == {out[i].path : i \in DOMAIN out}
      path  == IF base \in taken THEN FreePath(base, Prefix[cam.id], taken) ELSE base
  IN IF cam.id = NoId \/ \E i \in DOMAIN out : out[i].id = cam.id
     THEN out
     ELSE Append(out, [id |-> cam.id, path |-> path])

AssignPaths(cams) ==
  LET out[n \in 0..Len(cams)] ==
        IF n = 0 THEN <<>> ELSE AssignPath(out[n - 1], cams[n])
  IN out[Len(cams)]

-----------------------------------------------------------------------------
(* Requests.                                                               *)

(* A URL's path is a camera's, followed by "/hd", "/sd" or nothing.  A     *)
(* camera's path that is "/hd" itself is taken for the latter: what is     *)
(* left is no path, which is answered 400.                                 *)
ExtractCameraPath(path, tail) ==
  IF tail # None THEN [path |-> path, resolution |-> tail]
  ELSE IF path \in {<<"hd">>, <<"sd">>} THEN [path |-> None, resolution |-> path[1]]
  ELSE [path |-> path, resolution |-> "hd"]

-----------------------------------------------------------------------------
(* Codecs.  A skill is what a camera says it can send: a sequence of video *)
(* streams, each with its stream type, size and codec, and whether it      *)
(* offers them as "hd" and "sd".  Its audio codecs are left out.           *)

(* GetStreamType's loop: for "hd" the largest stream, for "sd" the         *)
(* smallest, which takes a size of zero for none so far.                   *)
Preferred(resolution, best, video) ==
  \/ resolution = "hd" /\ video.size > best.size
  \/ resolution = "sd" /\ (best.size = 0 \/ video.size < best.size)
Better(resolution, best, video) == IF Preferred(resolution, best, video) THEN video ELSE best
DefaultVideo == [type |-> 1, size |-> 0, codec |-> 0]

GetStreamType(skill, resolution) ==
  LET best[n \in 0..Len(skill.videos)] ==
        IF n = 0 THEN DefaultVideo ELSE Better(resolution, best[n - 1], skill.videos[n])
  IN best[Len(skill.videos)].type

OfType(skill, t) == {i \in DOMAIN skill.videos : skill.videos[i].type = t}

(* The codec of the first stream of type t; 4 is H265.                     *)
IsHEVC(skill, t) ==
  \E i \in OfType(skill, t) :
    skill.videos[i].codec = 4 /\ \A j \in OfType(skill, t) : i <= j

(* generateSDP: the description is that of the "hd" stream of the stored   *)
(* skill, whatever the resolution asked for; without one it is H264.       *)
DescribedVideo(skill) ==
  IF skill = None \/ skill.videos = <<>> THEN "H264"
  ELSE LET t == GetStreamType(skill, "hd")
       IN IF OfType(skill, t) = {} THEN "none"
          ELSE IF IsHEVC(skill, t) THEN "H265" ELSE "H264"

(* What Start decides from the skill the device has now.                   *)
SentVideo(skill, resolution) ==
  IF IsHEVC(skill, GetStreamType(skill, resolution)) THEN "H265" ELSE "H264"

(* A skill whose streams all have one codec.                               *)
OneCodec(skill) ==
  \A i, j \in DOMAIN skill.videos : (skill.videos[i].codec = 4) = (skill.videos[j].codec = 4)
=============================================================================
