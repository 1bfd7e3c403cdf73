----------------------------- MODULE MCZipIntake -----------------------------
(* A small instance of ZipIntake: one ZIP, staged by 7-Zip or taken over   *)
(* from the folder where it was, with the default options and no fault.    *)
EXTENDS ZipIntake
CONSTANTS iphone, photo, first, second
TheEntries == [z \in {iphone} |-> {photo}]
TheWishes  == {[profile |-> "ios", materialize |-> FALSE, support |-> FALSE, sevenZip |-> TRUE, cached |-> c] :
                 c \in BOOLEAN}
=============================================================================
