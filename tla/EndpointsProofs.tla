-------------------------- MODULE EndpointsProofs --------------------------
(***************************************************************************)
(* Proofs that assignPaths (bridge/cmd/addon/addon.go) gives the cameras   *)
(* of a configuration distinct paths, however many there are and whatever  *)
(* their names, and that the codec a description names is the one sent.    *)
(***************************************************************************)
EXTENDS Endpoints, FiniteSetTheorems, WellFoundedInduction, NaturalsInduction,
        SequenceTheorems, TLAPS

Parts == STRING
Paths == Seq(Parts)
Named == [id : Parts, name : Paths]

(* A configuration whose cameras can be given paths.                       *)
Nameable(cams) ==
  /\ cams \in Seq(Named)
  /\ \A i \in DOMAIN cams :
       /\ cams[i].id # NoId => Prefix[cams[i].id] \in Parts
       /\ i > 1 => i \in DOMAIN Decimal /\ Decimal[i] \in Parts

(* No two entries of a list have the same path.                            *)
Distinct(list) ==
  \A i, j \in DOMAIN list : list[i].path = list[j].path => i = j

(* A set of numbers that is not empty has a least one.                     *)
LEMMA LeastNat ==
  ASSUME NEW T \in SUBSET Nat, T # {}
  PROVE  \E x \in T : \A y \in T : x <= y
<1> DEFINE R == {rr \in Nat \X Nat : rr[1] < rr[2]}
<1>1. IsWellFoundedOn(R, Nat)
  BY NatLessThanWellFounded DEF OpToRel
<1> HIDE DEF R
<1>2. PICK x \in T : \A y \in T : ~(<<y, x>> \in R)
  BY <1>1, WFMin
<1>3. \A y \in T : ~(y < x)
  BY <1>2 DEF R
<1> QED
  BY <1>3

-----------------------------------------------------------------------------
(* Numbers a path may be given, as far as they are known.                  *)
Numbers(n) == \A i \in 2..n : i \in DOMAIN Decimal /\ Decimal[i] \in Parts

(* Paths numbered differently differ.                                      *)
LEMMA NumberedApart ==
  ASSUME NEW path \in Paths, NEW n \in Nat, Numbers(n),
         NEW i \in 1..n, NEW j \in 1..n, Numbered(path, i) = Numbered(path, j)
  PROVE  i = j
<1>1. \A k \in 2..n : /\ Len(Append(path, Decimal[k])) = Len(path) + 1
                      /\ Append(path, Decimal[k])[Len(path) + 1] = Decimal[k]
  BY DEF Numbers, Paths
<1>2. Len(path) \in Nat
  BY DEF Paths
<1>3. CASE i = 1 \/ j = 1
  <2>1. \A k \in 2..n : Numbered(path, k) # path
    BY <1>1, <1>2 DEF Numbered
  <2>2. Numbered(path, 1) = path
    BY DEF Numbered
  <2>3. \A k \in 1..n : k # 1 => k \in 2..n
    OBVIOUS
  <2> QED
    BY <1>3, <2>1, <2>2, <2>3
<1>4. CASE i # 1 /\ j # 1
  <2>1. i \in 2..n /\ j \in 2..n
    BY <1>4
  <2>2. Decimal[i] = Decimal[j]
    BY <1>1, <1>4, <2>1 DEF Numbered
  <2> QED
    BY <2>1, <2>2, DecimalAssumption DEF Numbers
<1> QED
  BY <1>3, <1>4

(* However many paths are taken, the one FreePath returns is not.          *)
LEMMA FreePathIsFree ==
  ASSUME NEW base \in Paths, NEW suffix \in Parts, NEW taken, IsFiniteSet(taken),
         Numbers(Cardinality(taken) + 1)
  PROVE  FreePath(base, suffix, taken) \in Paths \ taken
<1> DEFINE path == Append(base, suffix)
           n == Cardinality(taken) + 1
           T == {i \in 1..n : Numbered(path, i) \notin taken}
<1>1. Cardinality(taken) \in Nat /\ n \in Nat
  BY FS_CardinalityType
<1>2. path \in Paths
  BY DEF Paths
<1>3. T # {}
  <2> SUFFICES ASSUME T = {} PROVE FALSE
    OBVIOUS
  <2> DEFINE S == 1..n
             f == [i \in S |-> Numbered(path, i)]
  <2>1. f \in [S -> taken]
    OBVIOUS
  <2>2. IsFiniteSet(S) /\ Cardinality(S) = n
    BY <1>1, FS_Interval
  <2>3. Cardinality(taken) < Cardinality(S)
    BY <1>1, <2>2
  <2>4. \E i, j \in S : i # j /\ f[i] = f[j]
    <3> HIDE DEF f, S, n
    <3>1. IsFiniteSet(S) /\ Cardinality(taken) < Cardinality(S)
      BY <2>2, <2>3
    <3> QED
      BY <2>1, <3>1, FS_PigeonHole
  <2>5. PICK i, j \in 1..n : i # j /\ f[i] = f[j]
    BY <2>4
  <2>6. Numbered(path, i) = Numbered(path, j)
    BY <2>5
  <2> HIDE DEF path, n
  <2> QED
    BY <1>1, <1>2, <2>5, <2>6, NumberedApart DEF n
<1>4. T \in SUBSET Nat
  BY <1>1
<1>5. PICK least \in T : \A i \in T : least <= i
  BY <1>3, <1>4, LeastNat
<1> DEFINE Free(i) == /\ Numbered(path, i) \notin taken
                      /\ \A j \in 1..(i - 1) : Numbered(path, j) \in taken
<1>6. least \in 1..n /\ Free(least)
  <2> HIDE DEF path, n
  <2> QED
    BY <1>1, <1>5
<1>7. PICK i \in 1..n : Free(i) /\ FreePath(base, suffix, taken) = Numbered(path, i)
  BY <1>6 DEF FreePath
<1>8. Numbered(path, i) \in Paths
  <2> HIDE DEF path
  <2> QED
    BY <1>1, <1>2, <1>7 DEF Numbered, Numbers, Paths
<1> QED
  BY <1>7, <1>8

-----------------------------------------------------------------------------
(* The list built so far: no longer than what was read, its paths apart.   *)
Good(out, n) ==
  /\ out \in Seq([id : Parts, path : Paths])
  /\ Len(out) <= n
  /\ Distinct(out)

(* A list has no more paths than entries.                                  *)
LEMMA FewPaths ==
  ASSUME NEW out \in Seq([id : Parts, path : Paths])
  PROVE  LET taken == {out[i].path : i \in DOMAIN out}
         IN IsFiniteSet(taken) /\ Cardinality(taken) <= Len(out)
<1> DEFINE taken == {out[i].path : i \in DOMAIN out}
           S == 1..Len(out)
           f == [i \in S |-> out[i].path]
<1>1. DOMAIN out = S /\ Len(out) \in Nat
  OBVIOUS
<1>2. f \in Surjection(S, taken)
  BY <1>1 DEF Surjection
<1>3. IsFiniteSet(S) /\ Cardinality(S) = Len(out)
  BY <1>1, FS_Interval, SMTT(30)
<1> HIDE DEF f, S, taken
<1>4. IsFiniteSet(taken) /\ Cardinality(taken) <= Cardinality(S)
  BY <1>2, <1>3, FS_Surjection
<1> QED
  BY <1>3, <1>4 DEF taken

(* A round leaves the paths apart.                                         *)
LEMMA AssignPathGood ==
  ASSUME NEW n \in Nat, NEW out, Good(out, n), NEW cam \in Named,
         cam.id # NoId => Prefix[cam.id] \in Parts, Numbers(n + 1)
  PROVE  Good(AssignPath(out, cam), n + 1)
<1> DEFINE base  == SanitizeRTSPPath(cam.name, cam.id)
           taken == {out[i].path : i \in DOMAIN out}
           path  == IF base \in taken THEN FreePath(base, Prefix[cam.id], taken) ELSE base
           entry == [id |-> cam.id, path |-> path]
<1>1. Len(out) \in Nat /\ Len(out) <= n /\ DOMAIN out = 1..Len(out)
  BY DEF Good
<1>2. CASE AssignPath(out, cam) = out
  BY <1>1, <1>2 DEF Good
<1>3. CASE cam.id # NoId /\ AssignPath(out, cam) = Append(out, entry)
  <2>1. base \in Paths
    BY DEF SanitizeRTSPPath, Named, Paths
  <2>2. IsFiniteSet(taken) /\ Cardinality(taken) <= Len(out)
    BY FewPaths DEF Good
  <2>3. Numbers(Cardinality(taken) + 1)
    <3>1. Cardinality(taken) \in Nat /\ Cardinality(taken) + 1 <= n + 1
      BY <1>1, <2>2, FS_CardinalityType
    <3> HIDE DEF taken
    <3> QED
      BY <3>1 DEF Numbers
  <2>4. path \in Paths \ taken
    BY <1>3, <2>1, <2>2, <2>3, FreePathIsFree
  <2>5. entry \in [id : Parts, path : Paths] /\ entry.path \notin taken
    BY <2>4 DEF Named
  <2>6. \A i \in DOMAIN out : out[i].path # entry.path
    BY <2>5
  <2> HIDE DEF entry, taken
  <2>7. /\ Append(out, entry) \in Seq([id : Parts, path : Paths])
        /\ Len(Append(out, entry)) = Len(out) + 1
        /\ \A i \in 1..Len(out) : Append(out, entry)[i] = out[i]
        /\ Append(out, entry)[Len(out) + 1] = entry
    BY <2>5 DEF Good
  <2> DEFINE new == Append(out, entry)
  <2> HIDE DEF new
  <2>8. Distinct(new)
    BY <1>1, <2>6, <2>7 DEF Good, Distinct, new
  <2> QED
    BY <1>1, <1>3, <2>7, <2>8 DEF Good, new
<1> QED
  BY <1>2, <1>3 DEF AssignPath

-----------------------------------------------------------------------------
(* The rounds of assignPaths, up to the m-th.                              *)
IsRounds(g, cams, m) ==
  g = [n \in 0..m |-> IF n = 0 THEN <<>> ELSE AssignPath(g[n - 1], cams[n])]

(* There are such rounds, as many as asked for.                            *)
LEMMA RoundsExist ==
  ASSUME NEW cams, NEW m \in Nat
  PROVE  \E g : IsRounds(g, cams, m)
<1> DEFINE T == {k \in Nat : ~\E g : IsRounds(g, cams, k)}
<1> SUFFICES ASSUME m \in T PROVE FALSE
  OBVIOUS
<1>1. PICK k \in T : \A j \in T : k <= j
  <2> HIDE DEF T
  <2>1. T \in SUBSET Nat
    BY DEF T
  <2> QED
    BY <2>1, LeastNat
<1>2. CASE k = 0
  <2> DEFINE g == [n \in 0..0 |-> IF n = 0 THEN <<>> ELSE AssignPath(<<>>, cams[n])]
  <2>1. g = [n \in 0..0 |-> IF n = 0 THEN <<>> ELSE AssignPath(g[n - 1], cams[n])]
    OBVIOUS
  <2> HIDE DEF g
  <2>2. IsRounds(g, cams, 0)
    BY <2>1 DEF IsRounds
  <2> QED
    BY <1>1, <1>2, <2>2
<1>3. CASE k # 0
  <2>1. k - 1 \in Nat /\ k - 1 \notin T
    BY <1>1, <1>3
  <2>2. PICK g : IsRounds(g, cams, k - 1)
    BY <2>1
  <2> DEFINE h == [n \in 0..k |-> IF n = 0 THEN <<>> ELSE AssignPath(g[n - 1], cams[n])]
  <2>3. \A n \in 0..(k - 1) : h[n] = g[n]
    BY <1>1, <2>1, <2>2 DEF IsRounds
  <2>4. h = [n \in 0..k |-> IF n = 0 THEN <<>> ELSE AssignPath(h[n - 1], cams[n])]
    <3>1. \A n \in 0..k : n # 0 => n - 1 \in 0..(k - 1)
      BY <1>1
    <3>2. \A n \in 0..k : n # 0 => h[n - 1] = g[n - 1]
      BY <2>3, <3>1
    <3> DEFINE e == [n \in 0..k |-> IF n = 0 THEN <<>> ELSE AssignPath(h[n - 1], cams[n])]
    <3>3. \A n \in 0..k : h[n] = e[n]
      BY <3>2
    <3> QED
      BY <3>3
  <2> HIDE DEF h
  <2>5. IsRounds(h, cams, k)
    BY <2>4 DEF IsRounds
  <2> QED
    BY <1>1, <2>5
<1> QED
  BY <1>2, <1>3

(* assignPaths gives every camera a path of its own.                       *)
THEOREM PathsApart ==
  ASSUME NEW cams, Nameable(cams)
  PROVE  /\ AssignPaths(cams) \in Seq([id : Parts, path : Paths])
         /\ Distinct(AssignPaths(cams))
<1>1. Len(cams) \in Nat /\ DOMAIN cams = 1..Len(cams)
  BY DEF Nameable
<1> DEFINE N == Len(cams)
<1>2. PICK g : IsRounds(g, cams, N) /\ AssignPaths(cams) = g[N]
  <2> DEFINE g == CHOOSE g : IsRounds(g, cams, N)
  <2>1. IsRounds(g, cams, N)
    BY <1>1, RoundsExist
  <2>2. AssignPaths(cams) = g[N]
    BY DEF AssignPaths, IsRounds
  <2> QED
    BY <2>1, <2>2
<1> DEFINE round(h, n) == IF n = 0 THEN <<>> ELSE AssignPath(h[n - 1], cams[n])
<1>0. \A n \in 0..N : g[n] = round(g, n)
  <2> DEFINE e == [n \in 0..N |-> round(g, n)]
  <2>1. \A n \in 0..N : e[n] = round(g, n)
    OBVIOUS
  <2>2. g = e
    BY <1>2 DEF IsRounds
  <2> HIDE DEF e, round
  <2> QED
    BY <2>1, <2>2
<1> DEFINE T == {n \in 0..N : ~Good(g[n], n)}
<1> HIDE DEF N
<1>3. ASSUME NEW n \in 0..N, n # 0, Good(g[n - 1], n - 1)
      PROVE  Good(g[n], n)
  <2>1. n \in DOMAIN cams /\ n - 1 \in Nat /\ n \in Nat /\ n <= N
    BY <1>1, <1>3 DEF N
  <2>2. cams[n] \in Named /\ (cams[n].id # NoId => Prefix[cams[n].id] \in Parts)
    BY <1>1, <2>1 DEF Nameable
  <2>3. Numbers((n - 1) + 1)
    BY <1>1, <2>1 DEF Numbers, Nameable, N
  <2>4. Good(AssignPath(g[n - 1], cams[n]), (n - 1) + 1)
    BY <1>3, <2>1, <2>2, <2>3, AssignPathGood
  <2>5. g[n] = AssignPath(g[n - 1], cams[n]) /\ (n - 1) + 1 = n
    BY <1>0, <1>3, <2>1
  <2> QED
    BY <2>4, <2>5
<1>4. Good(g[0], 0)
  BY <1>1, <1>2 DEF IsRounds, Good, Distinct, N
<1>5. T = {}
  <2> SUFFICES ASSUME T # {} PROVE FALSE
    OBVIOUS
  <2>1. T \in SUBSET Nat
    BY <1>1 DEF N
  <2>2. PICK n \in T : \A j \in T : n <= j
    <3> HIDE DEF T
    <3> QED
      BY <2>1, LeastNat
  <2>3. n # 0 /\ n \in 0..N /\ n - 1 \in 0..N /\ n - 1 \notin T
    BY <1>1, <1>4, <2>2 DEF N
  <2> QED
    BY <1>3, <2>2, <2>3
<1>6. Good(g[N], N)
  BY <1>1, <1>5 DEF N
<1> QED
  BY <1>2, <1>6 DEF Good, N

-----------------------------------------------------------------------------
(* GetStreamType's loop, up to the m-th stream.                            *)
Video == [type : Nat, size : Nat, codec : Nat]
IsLoop(g, resolution, videos, m) ==
  g = [n \in 0..m |->
         IF n = 0 THEN DefaultVideo ELSE Better(resolution, g[n - 1], videos[n])]

(* There is such a loop, as long as asked for.                             *)
LEMMA LoopsExist ==
  ASSUME NEW resolution, NEW videos, NEW m \in Nat
  PROVE  \E g : IsLoop(g, resolution, videos, m)
<1> DEFINE turn(g, n) ==
             IF n = 0 THEN DefaultVideo ELSE Better(resolution, g[n - 1], videos[n])
           T == {k \in Nat : ~\E g : IsLoop(g, resolution, videos, k)}
<1> SUFFICES ASSUME m \in T PROVE FALSE
  OBVIOUS
<1>1. PICK k \in T : \A j \in T : k <= j
  <2> HIDE DEF T
  <2>1. T \in SUBSET Nat
    BY DEF T
  <2> QED
    BY <2>1, LeastNat
<1>2. CASE k = 0
  <2> DEFINE g == [n \in 0..0 |-> DefaultVideo]
  <2>1. g = [n \in 0..0 |-> turn(g, n)]
    OBVIOUS
  <2> HIDE DEF g
  <2>2. IsLoop(g, resolution, videos, 0)
    BY <2>1 DEF IsLoop
  <2> QED
    BY <1>1, <1>2, <2>2
<1>3. CASE k # 0
  <2>1. k - 1 \in Nat /\ k - 1 \notin T
    BY <1>1, <1>3
  <2>2. PICK g : IsLoop(g, resolution, videos, k - 1)
    BY <2>1
  <2> DEFINE h == [n \in 0..k |-> turn(g, n)]
  <2>3. \A n \in 0..(k - 1) : h[n] = g[n]
    BY <1>1, <2>1, <2>2 DEF IsLoop
  <2>4. h = [n \in 0..k |-> turn(h, n)]
    <3>1. \A n \in 0..k : n # 0 => n - 1 \in 0..(k - 1)
      BY <1>1
    <3>2. \A n \in 0..k : n # 0 => h[n - 1] = g[n - 1]
      BY <2>3, <3>1
    <3> DEFINE e == [n \in 0..k |-> turn(h, n)]
    <3>3. \A n \in 0..k : h[n] = e[n]
      BY <3>2
    <3> QED
      BY <3>3
  <2> HIDE DEF h
  <2>5. IsLoop(h, resolution, videos, k)
    BY <2>4 DEF IsLoop
  <2> QED
    BY <1>1, <2>5
<1> QED
  BY <1>2, <1>3

(* Where there are streams, GetStreamType finds the type of one for "sd".  *)
LEMMA SmallestIsThere ==
  ASSUME NEW skill, skill.videos \in Seq(Video), skill.videos # <<>>
  PROVE  OfType(skill, GetStreamType(skill, "sd")) # {}
<1> DEFINE videos == skill.videos
           N == Len(videos)
<1>1. N \in Nat /\ N # 0 /\ DOMAIN videos = 1..N
  OBVIOUS
<1>2. PICK g : IsLoop(g, "sd", videos, N) /\ GetStreamType(skill, "sd") = g[N].type
  <2> DEFINE g == CHOOSE g : IsLoop(g, "sd", videos, N)
  <2>1. IsLoop(g, "sd", videos, N)
    BY <1>1, LoopsExist
  <2>2. GetStreamType(skill, "sd") = g[N].type
    BY DEF GetStreamType, IsLoop
  <2> QED
    BY <2>1, <2>2
<1> DEFINE turn(n) == IF n = 0 THEN DefaultVideo ELSE Better("sd", g[n - 1], videos[n])
           Seen(n) == \E i \in 1..N : g[n] = videos[i]
           T == {n \in 1..N : ~Seen(n)}
<1> HIDE DEF N, videos
<1>3. \A n \in 0..N : g[n] = turn(n)
  <2> DEFINE e == [n \in 0..N |-> turn(n)]
  <2>1. \A n \in 0..N : e[n] = turn(n)
    OBVIOUS
  <2>2. g = e
    BY <1>2 DEF IsLoop
  <2> HIDE DEF e, turn
  <2> QED
    BY <2>1, <2>2
<1>4. Seen(1)
  <2>1. 0 \in 0..N /\ 1 \in 0..N /\ 1 \in 1..N /\ 1 - 1 = 0
    BY <1>1
  <2>2. g[0] = DefaultVideo /\ g[1] = Better("sd", g[0], videos[1])
    BY <1>3, <2>1
  <2>3. g[1] = videos[1]
    BY <2>2 DEF Better, Preferred, DefaultVideo
  <2> QED
    BY <2>1, <2>3
<1>5. T = {}
  <2> SUFFICES ASSUME T # {} PROVE FALSE
    OBVIOUS
  <2>1. T \in SUBSET Nat
    OBVIOUS
  <2>2. PICK n \in T : \A j \in T : n <= j
    <3> HIDE DEF T
    <3> QED
      BY <2>1, LeastNat
  <2>3. n \in 1..N /\ ~Seen(n) /\ n # 1 /\ n - 1 \in 1..N /\ n - 1 \notin T
    BY <1>1, <1>4, <2>2
  <2>4. Seen(n - 1)
    BY <2>3
  <2>5. g[n] = Better("sd", g[n - 1], videos[n])
    BY <1>1, <1>3, <2>3
  <2> QED
    BY <2>3, <2>4, <2>5 DEF Better
<1>6. PICK i \in 1..N : g[N] = videos[i]
  BY <1>1, <1>5
<1> QED
  BY <1>1, <1>2, <1>6 DEF OfType, videos

(* A type some stream has is that of a first one.                          *)
LEMMA FirstOfType ==
  ASSUME NEW skill, skill.videos \in Seq(Video), NEW t, OfType(skill, t) # {}
  PROVE  \E i \in OfType(skill, t) : \A j \in OfType(skill, t) : i <= j
<1>1. OfType(skill, t) \in SUBSET Nat
  BY DEF OfType
<1> QED
  BY <1>1, LeastNat

(* While the device has the skill that is stored, the description names    *)
(* the codec that is sent, or none at all, but for the smaller stream of a *)
(* camera whose streams differ.                                            *)
THEOREM CodecDescribed ==
  ASSUME NEW skill, skill # None, skill.videos \in Seq(Video),
         NEW resolution \in {"hd", "sd"},
         resolution = "hd" \/ OneCodec(skill)
  PROVE  DescribedVideo(skill) \in {"none", SentVideo(skill, resolution)}
<1> DEFINE large == GetStreamType(skill, "hd")
           small == GetStreamType(skill, "sd")
<1> HIDE DEF large, small
<1>1. CASE skill.videos = <<>>
  <2>1. \A t : OfType(skill, t) = {}
    BY <1>1 DEF OfType
  <2>2. SentVideo(skill, resolution) = "H264"
    BY <2>1 DEF SentVideo, IsHEVC
  <2> QED
    BY <1>1, <2>2 DEF DescribedVideo
<1>2. CASE skill.videos # <<>> /\ resolution = "hd"
  BY <1>2 DEF DescribedVideo, SentVideo
<1>3. CASE skill.videos # <<>> /\ resolution = "sd" /\ OfType(skill, large) = {}
  BY <1>3 DEF DescribedVideo, large
<1>4. CASE skill.videos # <<>> /\ resolution = "sd" /\ OfType(skill, large) # {}
  <2>1. IsHEVC(skill, large) = IsHEVC(skill, small)
    <3>1. PICK i \in OfType(skill, large) : \A j \in OfType(skill, large) : i <= j
      BY <1>4, FirstOfType
    <3>2. OfType(skill, small) # {}
      BY <1>4, SmallestIsThere DEF small
    <3>3. PICK k \in OfType(skill, small) : \A j \in OfType(skill, small) : k <= j
      BY <3>2, FirstOfType
    <3>4. \A n \in DOMAIN skill.videos :
            (skill.videos[n].codec = 4) = (skill.videos[i].codec = 4)
      BY <1>4, <3>1 DEF OneCodec, OfType
    <3>5. IsHEVC(skill, large) = (skill.videos[i].codec = 4)
      BY <3>1, <3>4 DEF IsHEVC, OfType
    <3>6. IsHEVC(skill, small) = (skill.videos[i].codec = 4)
      BY <3>3, <3>4 DEF IsHEVC, OfType
    <3> QED
      BY <3>5, <3>6
  <2> QED
    BY <1>4, <2>1 DEF DescribedVideo, SentVideo, large, small
<1> QED
  BY <1>1, <1>2, <1>3, <1>4
=============================================================================
