--------------------------- MODULE ReviewProtocol ----------------------------
(***************************************************************************)
(* What a review means, without records, versions, grants or dates: some   *)
(* content is drafted, put to the vote as it stands, and granted in the    *)
(* step in which enough eligible people have said aye to that content.     *)
(* Redrafting it takes every vote back; one nay refuses it; withdrawing it *)
(* is final.  Each step concerns one subject.                              *)
(***************************************************************************)
EXTENDS Naturals, FiniteSets

CONSTANTS
  Subjects,       \* what is reviewed
  Eligible(_),    \* who may vote on some content
  Required(_, _)  \* how many ayes a rule asks for some content

VARIABLES
  stage,    \* of each subject
  content,  \* of each subject
  ayes,     \* who is for the present content
  rule      \* the rule in force

reviewVars == << stage, content, ayes, rule >>

\* The subject s gets this stage and these ayes, and nothing else moves.
Becomes(s, newStage, newAyes) ==
  /\ stage' = [stage EXCEPT ![s] = newStage]
  /\ ayes' = [ayes EXCEPT ![s] = newAyes]
  /\ content' = [content EXCEPT ![s] = content'[s]]
  /\ UNCHANGED rule

SameContent(s) == content'[s] = content[s]

MayVote(s, p) == stage[s] = "review" /\ p \in Eligible(content[s]) \ ayes[s]

ReviewInit ==
  /\ stage = [s \in Subjects |-> "absent"]
  /\ ayes = [s \in Subjects |-> {}]

Draft(s) == stage[s] # "withdrawn" /\ Becomes(s, "open", {})

Ask(s) ==
  /\ stage[s] \in {"open", "refused"}
  /\ Becomes(s, "review", {}) /\ SameContent(s)

Aye(s, p) ==
  LET all == ayes[s] \cup {p} IN
  /\ MayVote(s, p)
  /\ Becomes(s, IF Cardinality(all) >= Required(rule, content[s]) THEN "granted" ELSE "review", all)
  /\ SameContent(s)

Nay(s, p) ==
  /\ MayVote(s, p)
  /\ Becomes(s, "refused", ayes[s]) /\ SameContent(s)

Withdraw(s) == stage[s] \notin {"absent", "withdrawn"} /\ Becomes(s, "withdrawn", {})

ChangeRule == UNCHANGED << stage, content, ayes >>

ReviewNext ==
  \/ \E s \in Subjects :
       \/ Draft(s) \/ Ask(s) \/ Withdraw(s)
       \/ stage[s] = "review" /\ \E p \in Eligible(content[s]) : Aye(s, p) \/ Nay(s, p)
  \/ ChangeRule

ReviewSpec == ReviewInit /\ [][ReviewNext]_reviewVars

==============================================================================
