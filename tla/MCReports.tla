------------------------------ MODULE MCReports ------------------------------
(* Constants of Reports for TLC.                                           *)
EXTENDS Reports, TLC

CONSTANTS ahmadi, alavi, otherAlavi, s1, s2, s3, c1, c2

TwoContents == {"blank", "edited"}
ThreeItems == <<"e1", "e2", "e3">>

(* Two of the class have the same last name. *)
ThreeNames == {ahmadi, alavi, otherAlavi}
Names == ahmadi :> 1 @@ alavi :> 2 @@ otherAlavi :> 2

(* Two metrics of one domain, one of another, and a domain without any.    *)
TwoDomains == [EDU_01 |-> "EDU", EDU_02 |-> "EDU", DEV_01 |-> "DEV"]
Weights == [EDU |-> 20, DEV |-> 15, ART |-> 6]

(* Complete months, one of them with a zero, an incomplete one, and one of *)
(* metrics that are no longer in the catalogue.                            *)
FiveForms ==
  {[EDU_01 |-> 0, EDU_02 |-> 5, DEV_01 |-> 3], [EDU_01 |-> 1, EDU_02 |-> 5, DEV_01 |-> 3],
   [EDU_01 |-> 5, EDU_02 |-> 5, DEV_01 |-> 5], [EDU_02 |-> 4], [OLD_01 |-> 4]}

(* A card that is tried again sees one change of others at most.           *)
LittleAtOnce == build.tries + changes <= MaxChanges

Symmetry ==
  Permutations({alavi, otherAlavi}) \cup Permutations(Enrollments) \cup Permutations(Classes)
==============================================================================
