----------------------------- MODULE Classifier -----------------------------
(***************************************************************************)
(* internal/config and internal/classifier: the profiles of config.yaml    *)
(* are read into a Go map, validated, put in order, and then every job     *)
(* name is classified by the first profile with a matching glob.           *)
(* A profile name is a number: < is the order of sort.Strings.             *)
(***************************************************************************)
EXTENDS Naturals, FiniteSets, FiniteSetsExt, Sequences, SequencesExt

CONSTANTS Names,     \* profile names
          Patterns,  \* globs
          JobNames,  \* display names of jobs
          Matches,   \* Matches[p]: the job names that filepath.Match finds p to match
          NoConfig, NoAnswer

ASSUME ClassifierAssumption ==
  /\ Names \subseteq Nat /\ IsFiniteSet(Names)
  /\ Matches \in [Patterns -> SUBSET JobNames]

VARIABLES file,    \* config.yaml: profile names as they appear, globs, default_profile
          cfg,     \* the loaded Config
          answer   \* what Classify last answered for a job name

vars == <<file, cfg, answer>>

(* default_profile may name no profile, and a profile may have no globs.   *)
Files ==
  {f \in [order : SetToAllKPermutations(Names), globs : [Names -> SUBSET Patterns],
          default : Names] :
     \A n \in Names \ Range(f.order) : f.globs[n] = {}}

ProfileNames(f) == Range(f.order)

Init ==
  /\ file \in Files
  /\ cfg = NoConfig
  /\ answer = [j \in JobNames |-> NoAnswer]

(* Mutant: default_profile is not looked up. *)
ValidateNoDefault(f) ==
  /\ ProfileNames(f) # {}
  /\ \A n \in ProfileNames(f) : f.globs[n] # {}

(* The part of validate that is about profiles. *)
Validate(f) ==
  /\ ProfileNames(f) # {}
  /\ f.default \in ProfileNames(f)
  /\ \A n \in ProfileNames(f) : f.globs[n] # {}

(* Mutant: the names stay in the order of the map iteration. *)
Unsorted(names) == names

SortStrings(names) ==
  CHOOSE s \in SetToSeqs(Range(names)) : \A i, k \in DOMAIN s : i < k => s[i] < s[k]

(* buildOrderedProfiles: range over the map gives the names in any order.  *)
Load ==
  /\ cfg = NoConfig
  /\ Validate(file)
  /\ \E names \in SetToSeqs(ProfileNames(file)) :
       cfg' = [ordered |-> SortStrings(names), globs |-> file.globs,
               default |-> file.default]
  /\ UNCHANGED <<file, answer>>

MatchesProfile(globs, n, jobName) == \E p \in globs[n] : jobName \in Matches[p]

(* Mutant: the default is returned when the first profile does not match.  *)
ClassifyFirstOnly(jobName) ==
  IF MatchesProfile(cfg.globs, cfg.ordered[1], jobName) THEN cfg.ordered[1] ELSE cfg.default

Classify(jobName) ==
  LET hits == {i \in DOMAIN cfg.ordered :
                 MatchesProfile(cfg.globs, cfg.ordered[i], jobName)}
  IN IF hits = {} THEN cfg.default ELSE cfg.ordered[Min(hits)]

ClassifyJob(jobName) ==
  /\ cfg # NoConfig
  /\ answer' = [answer EXCEPT ![jobName] = Classify(jobName)]
  /\ UNCHANGED <<file, cfg>>

(* The program starts again, from the same file. *)
Restart ==
  /\ cfg # NoConfig
  /\ cfg' = NoConfig
  /\ UNCHANGED <<file, answer>>

Next == Load \/ Restart \/ \E jobName \in JobNames : ClassifyJob(jobName)

Spec == Init /\ [][Next]_vars
-----------------------------------------------------------------------------
(* The answer names a configured profile: the lookup of cfg.Profiles in    *)
(* handleJobAssigned and in reconcileRunnerCount never misses, so that no  *)
(* assigned job is dropped there.                                          *)
AnswerConfigured ==
  \A j \in JobNames : answer[j] # NoAnswer => answer[j] \in ProfileNames(file)

(* A job that some profile matches gets a profile that matches it, and any *)
(* other job the default.                                                  *)
AnswerMatches ==
  \A j \in JobNames : answer[j] # NoAnswer =>
    \/ MatchesProfile(file.globs, answer[j], j)
    \/ /\ answer[j] = file.default
       /\ \A n \in Names : ~MatchesProfile(file.globs, n, j)

(* "OrderedProfiles is populated after loading for deterministic matching" *)
(* (config.go:20): overlapping globs and the random order of a Go map do   *)
(* not change the answer from one start of the program to the next, so     *)
(* that a runner name stands for one profile.                              *)
AnswerStable ==
  [][\A j \in JobNames : answer[j] # NoAnswer => answer'[j] = answer[j]]_vars
=============================================================================
