------------------------------ MODULE KeyFiles -------------------------------
(***************************************************************************)
(* generate_keypair() of attestation.py, run by several people at once:    *)
(* two files are created, the private one first, and removed again when    *)
(* something fails.  A process may also be killed, and clean nothing up.   *)
(* The file system is external; an open file is filled in one step.        *)
(***************************************************************************)
EXTENDS Naturals, Sequences

CONSTANTS
  Callers,   \* the processes; each draws a key of its own
  Paths,     \* names of files
  Requests,  \* the pairs of paths they may be given
  NoFile     \* no file of that name

ASSUME KeyAssumption ==
  /\ Requests \subseteq Paths \X Paths
  /\ NoFile \notin [key: Callers, half: {"private", "public"}, whole: BOOLEAN]

VARIABLES
  request,  \* the private and the public path of each caller
  files,    \* what is at each path: whose key, which half of it, and if whole
  stage,    \* where each caller is
  created   \* the paths it has created, in order

keyVars == << request, files, stage, created >>

Halves == << "private", "public" >>

Ours(c, path) == files[path] # NoFile /\ files[path].key = c

------------------------------------------------------------------------------
KeyInit ==
  /\ request \in [Callers -> Requests]
  /\ files = [p \in Paths |-> NoFile]
  /\ stage = [c \in Callers |-> "asked"]
  /\ created = [c \in Callers |-> << >>]

To(c, where) == stage' = [stage EXCEPT ![c] = where]

\* The paths are distinct and free, for now.
Check(c) ==
  /\ stage[c] = "asked"
  /\ IF /\ request[c][1] # request[c][2]
        /\ \A i \in 1 .. 2 : files[request[c][i]] = NoFile
     THEN To(c, "opening") ELSE To(c, "failed")
  /\ UNCHANGED << request, files, created >>

\* Mutant: without O_EXCL.
OpenOver(c) ==
  LET next == Len(created[c]) + 1
      path == request[c][next] IN
  /\ stage[c] = "opening"
  /\ files' = [files EXCEPT ![path] = [key |-> c, half |-> Halves[next], whole |-> FALSE]]
  /\ created' = [created EXCEPT ![c] = Append(@, path)]
  /\ To(c, "writing")
  /\ UNCHANGED request

\* os.open() with O_EXCL: the file is created or the call fails.
Open(c) ==
  LET next == Len(created[c]) + 1
      path == request[c][next] IN
  /\ stage[c] = "opening"
  /\ IF files[path] = NoFile
     THEN /\ files' = [files EXCEPT ![path] =
                         [key |-> c, half |-> Halves[next], whole |-> FALSE]]
          /\ created' = [created EXCEPT ![c] = Append(@, path)]
          /\ To(c, "writing")
     ELSE To(c, "cleaning") /\ UNCHANGED << files, created >>
  /\ UNCHANGED request

\* write(), flush() and fsync(), of which any may fail.
Write(c) ==
  /\ stage[c] = "writing"
  /\ \/ /\ files' = [files EXCEPT ![created[c][Len(created[c])]].whole = TRUE]
        /\ To(c, IF Len(created[c]) = 2 THEN "done" ELSE "opening")
     \/ To(c, "cleaning") /\ UNCHANGED files
  /\ UNCHANGED << request, created >>

\* Mutant: the file whose writing failed is not among the removed.
CleanWritten(c) ==
  /\ stage[c] = "cleaning"
  /\ files' = [p \in Paths |-> IF Ours(c, p) /\ files[p].whole THEN NoFile ELSE files[p]]
  /\ To(c, "failed")
  /\ UNCHANGED << request, created >>

\* One path after the other is unlinked, whatever is there.
Clean(c) ==
  /\ stage[c] = "cleaning"
  /\ IF created[c] = << >> THEN To(c, "failed") /\ UNCHANGED << files, created >>
     ELSE /\ files' = [files EXCEPT ![created[c][1]] = NoFile]
          /\ created' = [created EXCEPT ![c] = Tail(@)]
          /\ UNCHANGED stage
  /\ UNCHANGED request

Killed(c) ==
  /\ stage[c] \in {"opening", "writing", "cleaning"}
  /\ To(c, "killed")
  /\ UNCHANGED << request, files, created >>

KeyNext == \E c \in Callers : Check(c) \/ Open(c) \/ Write(c) \/ Clean(c) \/ Killed(c)

KeySpec == KeyInit /\ [][KeyNext]_keyVars

------------------------------------------------------------------------------
(* Properties *)

\* "Key output files must be distinct and must not exist": who is told of a
\* pair finds both of its halves, whole and of one key, whatever others do.
PairIsOfOneKey ==
  \A c \in Callers : stage[c] = "done" =>
    \A i \in 1 .. 2 : files[request[c][i]] = [key |-> c, half |-> Halves[i], whole |-> TRUE]

\* Who is told of a failure leaves nothing of the key.
FailureLeavesNothing ==
  \A c \in Callers : stage[c] = "failed" => \A p \in Paths : ~Ours(c, p)

\* A caller has a whole pair or nothing, according to what he was told.
KeysAreWhole == PairIsOfOneKey /\ FailureLeavesNothing

==============================================================================
