--------------------------- MODULE MCRTPForwarder ---------------------------
EXTENDS RTPForwarder, TLC

(* Any SETUPs and no media, with a path that names a track or not; two     *)
(* SETUPs that may ask for different ports; two clients with two packets,  *)
(* parameter sets and a keyframe among them; a client that stops reading   *)
(* or goes away while media are sent.                                      *)
SomeBounds ==
  {[word |-> w, setups |-> 2, tracks |-> Tracks, ports |-> {4}, packets |-> 0, changes |-> 0] :
     w \in {None, "audio"}}
  \cup
  {[word |-> None, setups |-> 2, tracks |-> {"video"}, ports |-> Ports, packets |-> 0, changes |-> 0],
   [word |-> None, setups |-> 2, tracks |-> {"video"}, ports |-> {4}, packets |-> 2, changes |-> 0],
   [word |-> None, setups |-> 1, tracks |-> {"video"}, ports |-> {4}, packets |-> 2, changes |-> 1]}

(* Sessions are interchangeable.                                           *)
Symmetry == Permutations(Sessions)
=============================================================================
