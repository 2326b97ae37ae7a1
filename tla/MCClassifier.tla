---------------------------- MODULE MCClassifier ----------------------------
(* Three profiles whose globs overlap. *)
EXTENDS Classifier

MCNames == 1..3

MCMatches == [p \in Patterns |->
                CASE p = "test*" -> {"test-job", "test-run"}
                  [] p = "test-j*" -> {"test-job"}
                  [] OTHER -> {}]
=============================================================================
