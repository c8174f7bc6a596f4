----------------------------- MODULE MCRegistry -----------------------------
EXTENDS Registry

CONSTANTS p1, p2, w1, w2

MCPrefix == [id \in {"a1", "a2", "a3", "a4", "a5"} |-> IF id = "a4" THEN "4" ELSE "a"]
MCDecimal == [i \in 2..6 |-> ToString(i)]
Cam(id, name) == [id |-> id, name |-> name]
Video(t, size, codec) == [type |-> t, size |-> size, codec |-> codec]

MCHomes == w1 :> << <<"d1", "d2">>, <<"d1">> >> @@ w2 :> <<>>
MCShared == w1 :> <<>> @@ w2 :> <<"d3">>
MCCategory == "d1" :> "sp" @@ "d2" :> "kg" @@ "d3" :> "dghsxj"
MCNameOf == "d1" :> <<"cam">> @@ "d2" :> <<"lamp">> @@ "d3" :> <<"hd">>

(* d1 sends H265 in both its streams, d3 in the larger one only.           *)
MCSkillOf ==
  "d1" :> [clarity |-> TRUE, videos |-> <<Video(4, 2, 4), Video(2, 9, 4)>>]
    @@ "d2" :> None
    @@ "d3" :> [clarity |-> TRUE, videos |-> <<Video(4, 2, 2), Video(2, 9, 4)>>]

(* Equal names, a name equal to another's path, repeated and missing ids.  *)
MCConfigs ==
  {<<Cam("a1", <<"cam">>), Cam("a2", <<"cam">>), Cam("a3", <<"cam">>),
     Cam("a4", <<"cam", "a">>), Cam("a5", <<"", "">>), Cam("a1", <<"x">>)>>,
   <<Cam("", <<"cam">>)>>}
MCDirectCamera == Cam("d1", <<"hd">>)

ProcSymmetry == Permutations(Procs)
=============================================================================
