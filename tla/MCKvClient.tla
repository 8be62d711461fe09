----------------------------- MODULE MCKvClient -----------------------------
(* Instances of KvClient for TLC.                                          *)
EXTENDS KvRefinement, TLC

CONSTANTS
  MaxLate,  \* bound: calls begun by clients that abandoned a call
  Mixes     \* bound: what one program does and meets

ASSUME MixesAssumption ==
  Mixes \subseteq
    [methods : SUBSET Ops, longest : 1 .. MaxBatch, late : 0 .. MaxLate,
     longestLate : 1 .. MaxBatch, faults : BOOLEAN]

VARIABLES
  late,     \* the calls that MaxLate bounds, so far
  mix       \* the member of Mixes that this program is

(* Clients are interchangeable, and so are the tags of values.             *)
TagSymmetry == Permutations(Tags)
ClientSymmetry == Permutations(Clients)

(* Clean calls are unbounded.  What an abandoned call leaves behind piles  *)
(* up with every later call, so only n of those are explored.  Mixes keep  *)
(* longer batches, more late calls, more methods and faults apart.  The    *)
(* one with Send and two late calls has a SEND left by its call.           *)
Mix(methods, longest, n, longestLate, faults) ==
  [methods |-> methods, longest |-> longest, late |-> n, longestLate |-> longestLate,
   faults |-> faults]

OneMix == {Mix(Ops, MaxBatch, MaxLate, MaxBatch, Faults)}

ClientMixes ==
  {Mix({"Put", "PutBatch", "GetBatch"}, 2, 0, 2, FALSE),
   Mix({"Get", "PutBatch"}, 2, MaxLate, 2, TRUE)}

LateMixes ==
  {Mix({"Send", "PutBatch"}, 2, MaxLate, 1, TRUE), Mix({"Send", "PutBatch"}, 2, 1, 2, TRUE),
   Mix({"PutBatch", "GetBatch"}, 2, MaxLate, 1, TRUE),
   Mix({"PutBatch", "GetBatch"}, 2, 1, 2, TRUE),
   Mix({"Put", "Get", "GetBatch"}, 2, 1, 2, TRUE), Mix({"GetBatch"}, 3, MaxLate, 3, TRUE)}

LateInit == Init /\ late = 0 /\ mix \in Mixes

Allowed(cl) ==
  /\ call'[cl].op \in mix.methods
  /\ IF abandoned[cl]
     THEN late < mix.late /\ Len(call'[cl].keys) <= mix.longestLate /\ late' = late + 1
     ELSE Len(call'[cl].keys) <= mix.longest /\ late' = late

LateNext ==
  \E cl \in Clients :
    /\ UNCHANGED mix
    /\ \/ Call(cl) /\ Allowed(cl)
       \/ /\ Progress(cl)
          /\ mix.faults \/ \A s \in Servers : ~Fault(cl, s)
          /\ UNCHANGED late

LateSpec == LateInit /\ [][LateNext]_<<vars, late, mix>>

FairLateSpec ==
  /\ LateSpec
  /\ \A cl \in Clients, s \in Servers :
       /\ WF_vars(Poll(cl, s))
       /\ WF_vars(Nic(cl, s))
       /\ WF_vars(ServerRepost(cl, s))
=============================================================================
