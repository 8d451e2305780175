--------------------------- MODULE KeptFilesProofs ----------------------------
(***************************************************************************)
(* What is kept beside the database, for any number of processes, paths,   *)
(* tokens, events and snapshots: pairs of keys, tokens, signed checkpoints *)
(* and bundles of evidence.  The last section puts them together.          *)
(***************************************************************************)
EXTENDS KeptFiles, SequenceTheorems, WellFoundedInduction, TLAPS

------------------------------------------------------------------------------
(* Pairs of keys: what each caller has created is exactly what is its own, *)
(* in the order it was asked for, and whole except for the one it writes.  *)

File == [key: Callers, half: {"private", "public"}, whole: BOOLEAN]

Stages == {"asked", "opening", "writing", "cleaning", "done", "failed", "killed"}

KeyTypeOK ==
  /\ request \in [Callers -> Paths \X Paths]
  /\ files \in [Paths -> File \cup {NoFile}]
  /\ stage \in [Callers -> Stages]
  /\ created \in [Callers -> Seq(Paths)]

\* The files of a caller that was not killed are those it has created.
OursAreCreated(c) ==
  stage[c] # "killed" =>
    \A p \in Paths : Ours(c, p) <=> \E i \in 1 .. Len(created[c]) : created[c][i] = p

NothingYet(c) == stage[c] \in {"asked", "failed"} => created[c] = << >>

\* How many files a caller has created at each stage.
Progress(c) ==
  /\ stage[c] = "opening" => Len(created[c]) \in 0 .. 1
  /\ stage[c] = "writing" => Len(created[c]) \in 1 .. 2
  /\ stage[c] = "done" => Len(created[c]) = 2

\* They are the requested ones, in that order.
InOrder(c) ==
  stage[c] \in {"opening", "writing", "done"} =>
    /\ request[c][1] # request[c][2]
    /\ \A i \in 1 .. Len(created[c]) :
         /\ created[c][i] = request[c][i]
         /\ files[created[c][i]].half = Halves[i]
         /\ stage[c] = "writing" => i < Len(created[c]) \/ ~files[created[c][i]].whole
         /\ i < Len(created[c]) \/ stage[c] # "writing" => files[created[c][i]].whole

\* None is listed twice.
NoneTwice(c) ==
  stage[c] # "killed" =>
    \A i, j \in 1 .. Len(created[c]) : created[c][i] = created[c][j] => i = j

CallerInv(c) ==
  OursAreCreated(c) /\ NothingYet(c) /\ Progress(c) /\ InOrder(c) /\ NoneTwice(c)

\* The two properties alone are not inductive: between its two files a caller
\* must know that the first is still its own.
KeyInv == KeyTypeOK /\ \A c \in Callers : CallerInv(c)

------------------------------------------------------------------------------
\* A step that leaves alone what d owns, and gives it nothing, keeps what is
\* said of d.
LEMMA Others ==
  ASSUME KeyTypeOK, NEW d \in Callers, CallerInv(d),
         request' = request, stage'[d] = stage[d], created'[d] = created[d],
         \A p \in Paths : files'[p] = files[p] \/ (~Ours(d, p) /\ ~Ours(d, p)')
  PROVE  CallerInv(d)'
<1>1. \A p \in Paths : /\ Ours(d, p)' <=> Ours(d, p)
                       /\ Ours(d, p) => files'[p] = files[p]
  BY DEF Ours
<1>2. OursAreCreated(d)' /\ NothingYet(d)' /\ Progress(d)' /\ NoneTwice(d)'
  BY <1>1 DEF CallerInv, OursAreCreated, NothingYet, Progress, NoneTwice
<1>3. created[d] \in Seq(Paths)
  BY DEF KeyTypeOK
<1>4. ASSUME stage[d] # "killed"
      PROVE  \A i \in 1 .. Len(created[d]) : files'[created[d][i]] = files[created[d][i]]
  <2> TAKE i \in 1 .. Len(created[d])
  <2>1. created[d][i] \in Paths
    BY <1>3
  <2>2. Ours(d, created[d][i])
    BY <1>4, <2>1 DEF CallerInv, OursAreCreated
  <2> QED
    BY <1>1, <2>1, <2>2
<1>5. InOrder(d)'
  BY <1>4 DEF CallerInv, InOrder
<1> QED
  BY <1>2, <1>5 DEF CallerInv

\* The check reads, and creates nothing.
LEMMA CheckKeeps ==
  ASSUME KeyInv, NEW c \in Callers, Check(c)
  PROVE  KeyInv'
<1>1. KeyTypeOK'
  BY DEF KeyInv, KeyTypeOK, Check, To, Stages
<1>2. CallerInv(c)'
  <2>1. created[c] = << >> /\ created'[c] = << >> /\ request' = request /\ files' = files
    BY DEF KeyInv, CallerInv, NothingYet, Check
  <2>2. \/ stage'[c] = "failed"
        \/ stage'[c] = "opening" /\ request[c][1] # request[c][2]
    BY DEF KeyInv, KeyTypeOK, Check, To
  <2>3. \A p \in Paths : ~Ours(c, p)'
    BY <2>1 DEF KeyInv, CallerInv, OursAreCreated, Check, Ours
  <2> QED
    BY <2>1, <2>2, <2>3
    DEF CallerInv, OursAreCreated, NothingYet, Progress, InOrder, NoneTwice
<1>3. ASSUME NEW d \in Callers \ {c}
      PROVE  CallerInv(d)'
  BY <1>3, Others DEF KeyInv, KeyTypeOK, Check, To
<1> QED
  BY <1>1, <1>2, <1>3 DEF KeyInv

\* An opened file was nobody's, and is the next one asked for.
LEMMA OpenKeeps ==
  ASSUME KeyInv, NEW c \in Callers, Open(c)
  PROVE  KeyInv'
<1> DEFINE next == Len(created[c]) + 1
           path == request[c][next]
<1>1. /\ created[c] \in Seq(Paths) /\ next \in 1 .. 2 /\ path \in Paths
      /\ stage[c] = "opening" /\ request[c][1] # request[c][2]
      /\ request[c] \in Paths \X Paths
  <2>1. /\ created[c] \in Seq(Paths) /\ request[c] \in Paths \X Paths
        /\ stage[c] = "opening"
    BY DEF KeyInv, KeyTypeOK, Open
  <2>2. Len(created[c]) \in 0 .. 1 /\ request[c][1] # request[c][2]
    BY <2>1 DEF KeyInv, CallerInv, Progress, InOrder
  <2>3. next \in 1 .. 2
    <3>1. \A n \in 0 .. 1 : n + 1 \in 1 .. 2
      OBVIOUS
    <3> QED
      BY <2>2, <3>1
  <2> HIDE DEF next
  <2> QED
    BY <2>1, <2>2, <2>3
<1>2. CASE files[path] # NoFile
  <2>1. request' = request /\ files' = files /\ created' = created
        /\ stage' = [stage EXCEPT ![c] = "cleaning"]
    BY <1>2 DEF Open, To
  <2>2. KeyTypeOK'
    BY <2>1 DEF KeyInv, KeyTypeOK, Stages
  <2>3. stage'[c] = "cleaning"
    BY <2>1 DEF KeyInv, KeyTypeOK
  <2>4. CallerInv(c)'
    BY <1>1, <2>1, <2>3
    DEF KeyInv, CallerInv, OursAreCreated, NothingYet, Progress, InOrder, NoneTwice, Ours
  <2>5. ASSUME NEW d \in Callers \ {c}
        PROVE  CallerInv(d)'
    BY <2>1, <2>5, Others DEF KeyInv, KeyTypeOK
  <2> QED
    BY <2>2, <2>4, <2>5 DEF KeyInv
<1>3. CASE files[path] = NoFile
  <2> DEFINE file == [key |-> c, half |-> Halves[next], whole |-> FALSE]
  <2>1. /\ request' = request /\ files' = [files EXCEPT ![path] = file]
        /\ created' = [created EXCEPT ![c] = Append(created[c], path)]
        /\ stage' = [stage EXCEPT ![c] = "writing"]
    BY <1>3 DEF Open, To
  <2>2. file \in File
    BY <1>1 DEF File, Halves
  <2>3. KeyTypeOK'
    BY <1>1, <2>1, <2>2 DEF KeyInv, KeyTypeOK, Stages
  <2>4. /\ stage'[c] = "writing" /\ files'[path] = file
        /\ created'[c] = Append(created[c], path)
        /\ \A p \in Paths \ {path} : files'[p] = files[p]
    BY <1>1, <2>1 DEF KeyInv, KeyTypeOK
  <2>5. /\ Len(created'[c]) = next /\ created'[c][next] = path
        /\ \A i \in 1 .. Len(created[c]) : created'[c][i] = created[c][i] /\ created[c][i] \in Paths
    BY <1>1, <2>4
  <2>6. \A i \in 1 .. Len(created[c]) : created[c][i] # path
    BY <1>1, <1>3, <2>5 DEF KeyInv, CallerInv, OursAreCreated, Ours
  <2>7. file # NoFile
    BY <2>2, KeyAssumption DEF File
  <2>8. OursAreCreated(c)'
    <3>1. \A p \in Paths \ {path} : Ours(c, p)' <=> Ours(c, p)
      BY <2>4 DEF Ours
    <3>2. \A p \in Paths : p = path => Ours(c, p)'
      BY <2>4, <2>7 DEF Ours
    <3> QED
      BY <1>1, <2>5, <2>4, <3>1, <3>2 DEF KeyInv, CallerInv, OursAreCreated
  <2>9. NothingYet(c)' /\ Progress(c)'
    BY <1>1, <2>4, <2>5 DEF NothingYet, Progress
  <2>10. InOrder(c)'
    <3>1. \A i \in 1 .. Len(created[c]) :
            /\ created[c][i] = request[c][i]
            /\ files'[created[c][i]] = files[created[c][i]]
            /\ files[created[c][i]].half = Halves[i] /\ files[created[c][i]].whole
      BY <1>1, <2>4, <2>5, <2>6 DEF KeyInv, CallerInv, InOrder
    <3>2. \A i \in 1 .. Len(created[c]) :
            /\ created'[c][i] = request[c][i]
            /\ files'[created'[c][i]].half = Halves[i]
            /\ files'[created'[c][i]].whole
      BY <2>5, <3>1
    <3>3. /\ created'[c][next] = request[c][next]
          /\ files'[created'[c][next]].half = Halves[next]
          /\ ~files'[created'[c][next]].whole
      BY <2>4, <2>5
    <3>4. \A i \in 1 .. Len(created'[c]) :
            \/ i = Len(created'[c]) /\ i = next
            \/ i \in 1 .. Len(created[c]) /\ i < Len(created'[c])
      BY <1>1, <2>5
    <3> HIDE DEF next, path, file
    <3>5. request'[c] = request[c] /\ request[c][1] # request[c][2]
      BY <1>1, <2>1
    <3> QED
      BY <2>4, <3>2, <3>3, <3>4, <3>5 DEF InOrder
  <2>11. NoneTwice(c)'
    BY <1>1, <2>4, <2>5, <2>6 DEF KeyInv, CallerInv, NoneTwice
  <2>12. ASSUME NEW d \in Callers \ {c}
         PROVE  CallerInv(d)'
    <3>1. stage'[d] = stage[d] /\ created'[d] = created[d]
      BY <2>1, <2>12 DEF KeyInv, KeyTypeOK
    <3>2. \A p \in Paths : p = path => ~Ours(d, p) /\ ~Ours(d, p)'
      BY <1>3, <2>4, <2>12 DEF Ours
    <3> QED
      BY <2>1, <2>4, <2>12, <3>1, <3>2, Others DEF KeyInv
  <2> QED
    BY <2>3, <2>8, <2>9, <2>10, <2>11, <2>12 DEF KeyInv, CallerInv
<1> QED
  BY <1>2, <1>3

\* A write completes the last file, or the caller begins to clean up.
LEMMA WriteKeeps ==
  ASSUME KeyInv, NEW c \in Callers, Write(c)
  PROVE  KeyInv'
<1> DEFINE n == Len(created[c])
<1>1. /\ created[c] \in Seq(Paths) /\ n \in 1 .. 2 /\ stage[c] = "writing"
      /\ created[c][n] \in Paths
  <2>1. created[c] \in Seq(Paths) /\ stage[c] = "writing"
    BY DEF KeyInv, KeyTypeOK, Write
  <2>2. n \in 1 .. 2
    BY <2>1 DEF KeyInv, CallerInv, Progress
  <2> QED
    BY <2>1, <2>2
<1>2. CASE stage' = [stage EXCEPT ![c] = "cleaning"] /\ files' = files
  <2>1. request' = request /\ created' = created /\ stage'[c] = "cleaning"
    BY <1>2 DEF Write, KeyInv, KeyTypeOK
  <2>2. KeyTypeOK'
    BY <1>2, <2>1 DEF KeyInv, KeyTypeOK, Stages
  <2>3. CallerInv(c)'
    BY <1>1, <1>2, <2>1
    DEF KeyInv, CallerInv, OursAreCreated, NothingYet, Progress, InOrder, NoneTwice, Ours
  <2>4. ASSUME NEW d \in Callers \ {c}
        PROVE  CallerInv(d)'
    BY <1>2, <2>1, <2>4, Others DEF KeyInv, KeyTypeOK
  <2> QED
    BY <2>2, <2>3, <2>4 DEF KeyInv
<1>3. CASE /\ files' = [files EXCEPT ![created[c][n]].whole = TRUE]
           /\ stage' = [stage EXCEPT ![c] = IF n = 2 THEN "done" ELSE "opening"]
  <2>1. request' = request /\ created' = created
        /\ stage'[c] = IF n = 2 THEN "done" ELSE "opening"
    BY <1>3 DEF Write, KeyInv, KeyTypeOK
  <2>2. Ours(c, created[c][n]) /\ files[created[c][n]] \in File
    <3>1. n \in 1 .. Len(created[c])
      BY <1>1
    <3>2. Ours(c, created[c][n])
      BY <1>1, <3>1 DEF KeyInv, CallerInv, OursAreCreated
    <3> QED
      BY <1>1, <3>2 DEF KeyInv, KeyTypeOK, Ours
  <2>3. /\ files'[created[c][n]] = [files[created[c][n]] EXCEPT !.whole = TRUE]
        /\ \A p \in Paths : p # created[c][n] => files'[p] = files[p]
    BY <1>1, <1>3 DEF KeyInv, KeyTypeOK
  <2>4. files'[created[c][n]] \in File
        /\ files'[created[c][n]].key = c
        /\ files'[created[c][n]].half = files[created[c][n]].half
        /\ files'[created[c][n]].whole
    BY <2>2, <2>3 DEF File, Ours
  <2>5. KeyTypeOK'
    BY <1>1, <1>3, <2>1, <2>4 DEF KeyInv, KeyTypeOK, Stages
  <2>6. files'[created[c][n]] # NoFile
    BY <2>4, KeyAssumption DEF File
  <2>7. \A p \in Paths : Ours(c, p)' <=> Ours(c, p)
    BY <2>2, <2>3, <2>4, <2>6 DEF Ours
  <2>8. OursAreCreated(c)' /\ NothingYet(c)' /\ Progress(c)' /\ NoneTwice(c)'
    BY <1>1, <2>1, <2>7
    DEF KeyInv, CallerInv, OursAreCreated, NothingYet, Progress, NoneTwice
  <2>9. InOrder(c)'
    <3>1. \A i \in 1 .. n : i # n => created[c][i] # created[c][n] /\ created[c][i] \in Paths
      BY <1>1 DEF KeyInv, CallerInv, NoneTwice
    <3>2. \A i \in 1 .. n : /\ files'[created[c][i]].half = files[created[c][i]].half
                            /\ files'[created[c][i]].whole
      <4> TAKE i \in 1 .. n
      <4>1. CASE i = n
        BY <2>4, <4>1
      <4>2. CASE i # n
        <5>1. files[created[c][i]].whole
          BY <1>1, <4>2 DEF KeyInv, CallerInv, InOrder
        <5> QED
          BY <2>3, <3>1, <4>2, <5>1
      <4> QED
        BY <4>1, <4>2
    <3>3. /\ request[c][1] # request[c][2]
          /\ \A i \in 1 .. n : created[c][i] = request[c][i]
                               /\ files[created[c][i]].half = Halves[i]
      BY <1>1 DEF KeyInv, CallerInv, InOrder
    <3> QED
      BY <1>1, <2>1, <3>2, <3>3 DEF InOrder
  <2>10. ASSUME NEW d \in Callers \ {c}
         PROVE  CallerInv(d)'
    <3>1. stage'[d] = stage[d] /\ created'[d] = created[d]
      BY <1>3, <2>1, <2>10 DEF KeyInv, KeyTypeOK
    <3>2. \A p \in Paths : p = created[c][n] => ~Ours(d, p) /\ ~Ours(d, p)'
      BY <2>2, <2>4, <2>10 DEF Ours
    <3> QED
      BY <2>1, <2>3, <2>10, <3>1, <3>2, Others DEF KeyInv
  <2> QED
    BY <2>5, <2>8, <2>9, <2>10 DEF KeyInv, CallerInv
<1> QED
  BY <1>2, <1>3 DEF Write, To

\* Cleaning up unlinks what is its own, and nothing else.
LEMMA CleanKeeps ==
  ASSUME KeyInv, NEW c \in Callers, Clean(c)
  PROVE  KeyInv'
<1>1. created[c] \in Seq(Paths) /\ stage[c] = "cleaning" /\ request' = request
  BY DEF KeyInv, KeyTypeOK, Clean
<1>2. CASE created[c] = << >>
  <2>1. files' = files /\ created' = created /\ stage' = [stage EXCEPT ![c] = "failed"]
    BY <1>2 DEF Clean, To
  <2>2. KeyTypeOK' /\ stage'[c] = "failed"
    BY <1>1, <2>1 DEF KeyInv, KeyTypeOK, Stages
  <2>3. CallerInv(c)'
    BY <1>1, <1>2, <2>1, <2>2
    DEF KeyInv, CallerInv, OursAreCreated, NothingYet, Progress, InOrder, NoneTwice, Ours
  <2>4. ASSUME NEW d \in Callers \ {c}
        PROVE  CallerInv(d)'
    BY <1>1, <2>1, <2>4, Others DEF KeyInv, KeyTypeOK
  <2> QED
    BY <2>2, <2>3, <2>4 DEF KeyInv
<1>3. CASE created[c] # << >>
  <2> DEFINE n == Len(created[c])
  <2>1. /\ files' = [files EXCEPT ![created[c][1]] = NoFile]
        /\ created' = [created EXCEPT ![c] = Tail(created[c])]
        /\ stage' = stage
    BY <1>3 DEF Clean
  <2>2. /\ n \in Nat \ {0} /\ created[c][1] \in Paths /\ Tail(created[c]) \in Seq(Paths)
        /\ Len(Tail(created[c])) = n - 1
        /\ \A i \in 1 .. n - 1 : Tail(created[c])[i] = created[c][i + 1]
    BY <1>1, <1>3
  <2>3. KeyTypeOK' /\ created'[c] = Tail(created[c])
    BY <1>1, <2>1, <2>2 DEF KeyInv, KeyTypeOK
  <2>4. /\ files'[created[c][1]] = NoFile
        /\ \A p \in Paths : p # created[c][1] => files'[p] = files[p]
    BY <2>1, <2>2 DEF KeyInv, KeyTypeOK
  <2>5. \A i, j \in 1 .. n : created[c][i] = created[c][j] => i = j
    BY <1>1 DEF KeyInv, CallerInv, NoneTwice
  <2>6. OursAreCreated(c)'
    <3>1. \A p \in Paths : Ours(c, p) <=> \E i \in 1 .. n : created[c][i] = p
      BY <1>1 DEF KeyInv, CallerInv, OursAreCreated
    <3>2. \A p \in Paths : Ours(c, p)' <=> p # created[c][1] /\ Ours(c, p)
      BY <2>4 DEF Ours
    <3>3. \A p \in Paths : Ours(c, p)' <=> \E i \in 2 .. n : created[c][i] = p
      BY <2>2, <2>5, <3>1, <3>2
    <3>4. \A p \in Paths : (\E i \in 2 .. n : created[c][i] = p)
                             <=> \E i \in 1 .. n - 1 : Tail(created[c])[i] = p
      <4> TAKE p \in Paths
      <4>1. ASSUME NEW i \in 2 .. n, created[c][i] = p
            PROVE  \E k \in 1 .. n - 1 : Tail(created[c])[k] = p
        <5>1. i - 1 \in 1 .. n - 1 /\ Tail(created[c])[i - 1] = p
          BY <2>2, <4>1
        <5> QED
          BY <5>1
      <4>2. ASSUME NEW i \in 1 .. n - 1, Tail(created[c])[i] = p
            PROVE  \E k \in 2 .. n : created[c][k] = p
        <5>1. i + 1 \in 2 .. n /\ created[c][i + 1] = p
          BY <2>2, <4>2
        <5> QED
          BY <5>1
      <4> QED
        BY <4>1, <4>2
    <3> QED
      BY <2>2, <2>3, <3>3, <3>4 DEF OursAreCreated
  <2>7. NothingYet(c)' /\ Progress(c)' /\ InOrder(c)'
    BY <1>1, <2>1 DEF NothingYet, Progress, InOrder
  <2>8. NoneTwice(c)'
    <3>1. ASSUME NEW i \in 1 .. n - 1, NEW j \in 1 .. n - 1,
                 Tail(created[c])[i] = Tail(created[c])[j]
          PROVE  i = j
      <4>1. i + 1 \in 1 .. n /\ j + 1 \in 1 .. n /\ created[c][i + 1] = created[c][j + 1]
        BY <2>2, <3>1
      <4> QED
        BY <2>5, <4>1
    <3> QED
      BY <2>2, <2>3, <3>1 DEF NoneTwice
  <2>9. ASSUME NEW d \in Callers \ {c}
        PROVE  CallerInv(d)'
    <3>1. stage'[d] = stage[d] /\ created'[d] = created[d]
      BY <2>1, <2>9 DEF KeyInv, KeyTypeOK
    <3>2. Ours(c, created[c][1])
      BY <1>1, <2>2 DEF KeyInv, CallerInv, OursAreCreated
    <3>3. \A p \in Paths : p = created[c][1] => ~Ours(d, p) /\ ~Ours(d, p)'
      BY <2>4, <2>9, <3>2 DEF Ours
    <3> QED
      BY <1>1, <2>4, <2>9, <3>1, <3>3, Others DEF KeyInv
  <2> QED
    BY <2>3, <2>6, <2>7, <2>8, <2>9 DEF KeyInv, CallerInv
<1> QED
  BY <1>2, <1>3

\* Of who is killed nothing is said.
LEMMA KilledKeeps ==
  ASSUME KeyInv, NEW c \in Callers, Killed(c)
  PROVE  KeyInv'
<1>1. /\ request' = request /\ files' = files /\ created' = created
      /\ stage' = [stage EXCEPT ![c] = "killed"] /\ stage'[c] = "killed"
  BY DEF Killed, To, KeyInv, KeyTypeOK
<1>2. KeyTypeOK'
  BY <1>1 DEF KeyInv, KeyTypeOK, Stages
<1>3. CallerInv(c)'
  BY <1>1 DEF CallerInv, OursAreCreated, NothingYet, Progress, InOrder, NoneTwice
<1>4. ASSUME NEW d \in Callers \ {c}
      PROVE  CallerInv(d)'
  BY <1>1, <1>4, Others DEF KeyInv, KeyTypeOK
<1> QED
  BY <1>2, <1>3, <1>4 DEF KeyInv

\* Before anybody asks nothing has been created.
LEMMA KeyStarts == KeyInit => KeyInv
<1> SUFFICES ASSUME KeyInit PROVE KeyInv
  OBVIOUS
<1>1. KeyTypeOK
  BY KeyAssumption DEF KeyInit, KeyTypeOK, Stages
<1> QED
  BY <1>1 DEF KeyInit, KeyInv, CallerInv, OursAreCreated, NothingYet, Progress, InOrder,
    NoneTwice, Ours

\* Every step of every caller keeps the invariant (generate_keypair).
LEMMA KeyStep ==
  ASSUME KeyInv, [KeyNext]_keyVars
  PROVE  KeyInv'
<1>1. CASE KeyNext
  BY <1>1, CheckKeeps, OpenKeeps, WriteKeeps, CleanKeeps, KilledKeeps DEF KeyNext
<1>2. CASE UNCHANGED keyVars
  <2>1. UNCHANGED << request, files, stage, created >>
    BY <1>2 DEF keyVars
  <2>2. KeyTypeOK'
    BY <2>1 DEF KeyInv, KeyTypeOK
  <2>3. ASSUME NEW c \in Callers PROVE CallerInv(c)'
    BY <2>1, Others DEF KeyInv
  <2> QED
    BY <2>2, <2>3 DEF KeyInv
<1> QED
  BY <1>1, <1>2

\* A pair that was announced is whole and of one key (generate_keypair).
LEMMA AnnouncedPair == KeyInv => PairIsOfOneKey
<1> SUFFICES ASSUME KeyInv, NEW c \in Callers, stage[c] = "done", NEW i \in 1 .. 2
             PROVE  files[request[c][i]] = [key |-> c, half |-> Halves[i], whole |-> TRUE]
  BY DEF PairIsOfOneKey
<1>1. Len(created[c]) = 2 /\ created[c] \in Seq(Paths)
  BY DEF KeyInv, KeyTypeOK, CallerInv, Progress
<1>2. created[c][i] = request[c][i] /\ created[c][i] \in Paths
  BY <1>1 DEF KeyInv, CallerInv, InOrder
<1>3. Ours(c, request[c][i])
  BY <1>1, <1>2 DEF KeyInv, CallerInv, OursAreCreated
<1>4. files[request[c][i]].half = Halves[i] /\ files[request[c][i]].whole
  BY <1>1, <1>2 DEF KeyInv, CallerInv, InOrder
<1>5. files[request[c][i]] \in File
  BY <1>2, <1>3 DEF KeyInv, KeyTypeOK, Ours
<1> QED
  BY <1>3, <1>4, <1>5 DEF Ours, File

\* A failure that was announced left nothing of its key (generate_keypair).
LEMMA FailureIsClean == KeyInv => FailureLeavesNothing
BY DEF KeyInv, CallerInv, NothingYet, OursAreCreated, FailureLeavesNothing

\* The strengthened invariant, for any number of callers and paths.
THEOREM KeyInvariant == KeySpec => []KeyInv
BY KeyStarts, KeyStep, PTL DEF KeySpec

\* What the invariant says of what callers were told.
LEMMA KeysShow == KeyInv => KeysAreWhole
BY AnnouncedPair, FailureIsClean DEF KeysAreWhole

\* A caller has a whole pair or nothing, according to what he was told,
\* whatever number of others makes keys under the same names.
THEOREM KeysWhole == KeySpec => []KeysAreWhole
BY KeyInvariant, KeysShow, PTL

------------------------------------------------------------------------------
(* Tokens *)

InquiryRecord ==
  \E t, f, h, l : inquiry = [token |-> t, found |-> f, held |-> h, late |-> l]

\* What the file of a request says of its token now is among what it has said
\* since the request arrived, and so is what was read of it.
InquiryInv ==
  inquiry # Idle =>
    /\ InquiryRecord
    /\ IsLocal(inquiry.token) =>
         \A records \in inquiry.held : \A r \in records : r.secret = inquiry.token
    /\ About(inquiry.token, registry, config) \in inquiry.held
    /\ inquiry.found # Never =>
         /\ inquiry.found \in inquiry.held
         /\ ~IsLocal(inquiry.token) => Trusted(inquiry.found)

\* Every entry of the cache answers for the bytes it is found by.
CacheInv == \A entry \in cache : entry.parsed = entry.key /\ Trusted(entry.parsed)

AccessInv == InquiryInv /\ CacheInv

\* A replaced file adds to what was held, and leaves what was read.
LEMMA FilesMove ==
  ASSUME InquiryInv, inquiry' = Noticed(registry', config')
  PROVE  InquiryInv'
<1>1. CASE inquiry = Idle
  BY <1>1 DEF Noticed, InquiryInv
<1>2. CASE inquiry # Idle
  <2>1. PICK t, f, h, l : inquiry = [token |-> t, found |-> f, held |-> h, late |-> l]
    BY <1>2 DEF InquiryInv, InquiryRecord
  <2> DEFINE new == About(t, registry', config')
  <2>2. inquiry' = [token |-> t, found |-> f, held |-> h \cup {new}, late |-> l]
    BY <1>2, <2>1 DEF Noticed
  <2> HIDE DEF new
  <2>3. InquiryRecord'
    BY <2>2 DEF InquiryRecord
  <2>4. /\ inquiry'.token = t /\ inquiry'.found = f /\ inquiry'.held = h \cup {new}
        /\ inquiry.token = t /\ inquiry.found = f /\ inquiry.held = h
    BY <2>1, <2>2
  <2>5. About(inquiry.token, registry, config)' = new
    BY <2>4 DEF About, IsLocal, new
  <2>6. f # Never => f \in h /\ (~IsLocal(t) => Trusted(f))
    BY <1>2, <2>4 DEF InquiryInv
  <2>7. IsLocal(t) => \A records \in h \cup {new} : \A r \in records : r.secret = t
    BY <1>2, <2>4 DEF InquiryInv, new, About
  <2> QED
    BY <2>3, <2>4, <2>5, <2>6, <2>7 DEF InquiryInv, IsLocal, Trusted
<1> QED
  BY <1>1, <1>2

\* What is read of a file is what it says at that moment.
LEMMA FileRead ==
  ASSUME AccessInv, Unread, NEW found, inquiry' = [inquiry EXCEPT !.found = found],
         found = About(inquiry.token, registry, config),
         ~IsLocal(inquiry.token) => Trusted(found),
         UNCHANGED << registry, config >>
  PROVE  InquiryInv'
<1>1. PICK t, f, h, l : inquiry = [token |-> t, found |-> f, held |-> h, late |-> l]
  BY DEF AccessInv, InquiryInv, InquiryRecord, Unread
<1>2. inquiry' = [token |-> t, found |-> found, held |-> h, late |-> l]
  BY <1>1
<1>3. InquiryRecord'
  BY <1>2 DEF InquiryRecord
<1>4. /\ inquiry'.token = t /\ inquiry'.found = found /\ inquiry'.held = h
      /\ inquiry.token = t /\ inquiry.held = h
  BY <1>1, <1>2
<1>5. About(inquiry.token, registry, config)' = About(t, registry, config)
  BY <1>4 DEF About, IsLocal
<1>6. About(t, registry, config) \in h
  BY <1>4 DEF AccessInv, InquiryInv, Unread
<1>7. IsLocal(t) => \A records \in h : \A r \in records : r.secret = t
  BY <1>4 DEF AccessInv, InquiryInv, Unread
<1> QED
  BY <1>3, <1>4, <1>5, <1>6, <1>7 DEF InquiryInv, IsLocal, Trusted

\* The inductive invariant of authentication, one step at a time.
LEMMA AccessStep ==
  ASSUME AccessInv, [AccessNext]_accessVars
  PROVE  AccessInv'
<1>1. CASE inquiry' = Noticed(registry', config') /\ cache' = cache
  BY <1>1, FilesMove DEF AccessInv, CacheInv, Trusted
<1>2. CASE UNCHANGED << registry, config, cache, inquiry >>
  <2>1. InquiryInv'
    BY <1>2 DEF AccessInv, InquiryInv, InquiryRecord, About, IsLocal, Trusted
  <2> QED
    BY <1>2, <2>1 DEF AccessInv, CacheInv, Trusted
<1>3. RegistryNext => \/ inquiry' = Noticed(registry', config') /\ cache' = cache
                      \/ UNCHANGED << registry, config, cache, inquiry >>
  <2>1. ASSUME NEW p, NEW secret, NEW g, NEW x, ReadRegistry(p, secret, g, x)
        PROVE  UNCHANGED << registry, config, cache, inquiry >>
    BY <2>1 DEF ReadRegistry
  <2>2. ASSUME NEW p, WriteTemporary(p) \/ GiveUp(p)
        PROVE  UNCHANGED << registry, config, cache, inquiry >>
    BY <2>2 DEF WriteTemporary, GiveUp
  <2>3. ASSUME NEW p, Replace(p)
        PROVE  inquiry' = Noticed(registry', config') /\ cache' = cache
    BY <2>3 DEF Replace, Noticed
  <2>4. ASSUME NEW r, NEW kept, Withdraw(r, kept)
        PROVE  inquiry' = Noticed(registry', config') /\ cache' = cache
    BY <2>4 DEF Withdraw, Noticed
  <2> QED
    BY <2>1, <2>2, <2>3, <2>4 DEF RegistryNext
<1>4. ConfigNext => inquiry' = Noticed(registry', config') /\ cache' = cache
  BY DEF ConfigNext, Configure, Noticed
<1>5. CASE Start
  <2>1. inquiry' = Idle /\ cache' = {[key |-> config, parsed |-> config]}
        /\ Trusted(config) /\ config' = config
    BY <1>5 DEF Start, Parsed, CacheKey
  <2> QED
    BY <2>1 DEF AccessInv, InquiryInv, CacheInv, Trusted
<1>6. ASSUME NEW t, Arrive(t)
      PROVE  AccessInv'
  <2>1. /\ inquiry' = [token |-> t, found |-> Never,
                      held |-> {About(t, registry, config)},
                      late |-> IsLocal(t) /\ t \in withdrawn]
        /\ UNCHANGED << registry, config, cache >>
    BY <1>6 DEF Arrive
  <2>2. InquiryRecord'
    BY <2>1 DEF InquiryRecord
  <2>3. inquiry'.token = t /\ inquiry'.found = Never
        /\ inquiry'.held = {About(t, registry, config)}
    BY <2>1
  <2>4. About(inquiry.token, registry, config)' = About(t, registry, config)
    BY <2>1, <2>3 DEF About, IsLocal
  <2>5. IsLocal(t) => \A r \in About(t, registry, config) : r.secret = t
    BY DEF About
  <2>6. InquiryInv'
    BY <2>2, <2>3, <2>4, <2>5 DEF InquiryInv, IsLocal
  <2> QED
    BY <2>1, <2>6 DEF AccessInv, CacheInv, Trusted
<1>7. CASE ReadRecords
  <2>1. UNCHANGED << registry, config, cache >> /\ Unread /\ IsLocal(inquiry.token)
    BY <1>7 DEF ReadRecords
  <2>2. CASE inquiry' = Idle
    BY <2>1, <2>2 DEF AccessInv, InquiryInv, CacheInv, Trusted
  <2>3. CASE inquiry' = [inquiry EXCEPT !.found =
                            {r \in registry : r.secret = inquiry.token}]
    <3>1. InquiryInv'
      BY <2>1, <2>3, FileRead DEF About
    <3> QED
      BY <2>1, <3>1 DEF AccessInv, CacheInv, Trusted
  <2> QED
    BY <1>7, <2>2, <2>3 DEF ReadRecords, Records
<1>8. CASE ConfigHit
  <2>1. PICK entry \in cache : /\ entry.key = config
                              /\ inquiry' = [inquiry EXCEPT !.found = entry.parsed]
    BY <1>8 DEF ConfigHit, CacheKey
  <2>2. /\ Unread /\ ~IsLocal(inquiry.token) /\ UNCHANGED << registry, config, cache >>
        /\ entry.parsed = config /\ Trusted(config)
    BY <1>8, <2>1 DEF ConfigHit, AccessInv, CacheInv
  <2>3. InquiryInv'
    BY <2>1, <2>2, FileRead DEF About
  <2> QED
    BY <2>2, <2>3 DEF AccessInv, CacheInv, Trusted
<1>9. CASE ConfigMiss
  <2>1. /\ Unread /\ ~IsLocal(inquiry.token) /\ UNCHANGED << registry, config >>
    BY <1>9 DEF ConfigMiss
  <2>2. CASE inquiry' = Idle /\ cache' = cache
    BY <2>1, <2>2 DEF AccessInv, InquiryInv, CacheInv, Trusted
  <2>3. CASE /\ Trusted(config) /\ inquiry' = [inquiry EXCEPT !.found = config]
             /\ \E kept \in Remaining : cache' = kept \cup {Parsed(config)}
    <3>1. InquiryInv'
      BY <2>1, <2>3, FileRead DEF About
    <3>2. \A entry \in cache' :
            entry \in cache \/ entry = [key |-> config, parsed |-> config]
      BY <2>3 DEF Remaining, Parsed, CacheKey
    <3> QED
      BY <2>1, <2>3, <3>1, <3>2 DEF AccessInv, CacheInv, Trusted
  <2> QED
    BY <1>9, <2>2, <2>3 DEF ConfigMiss
<1>10. CASE Decide
  BY <1>10 DEF Decide, AccessInv, InquiryInv, CacheInv, Trusted
<1>11. ClockTicks => UNCHANGED << registry, config, cache, inquiry >>
  BY DEF ClockTicks
<1> QED
  BY <1>1, <1>2, <1>3, <1>4, <1>5, <1>6, <1>7, <1>8, <1>9, <1>10, <1>11
     DEF AccessNext, RequestNext, accessVars

\* A request is decided by what its file held while it was under way,
\* whatever processes, earlier requests and the start of the server have read
\* before (api.py, access.py, federation.py).
THEOREM FilesDecide == AccessSpec => DecidedInItsTime
<1> DEFINE Decided ==
      answer' # Never =>
        LET t == answer'.token
            g == answer'.principal
        IN IF IsLocal(t)
             THEN \E records \in inquiry.held : \E r \in records :
                    r.secret = t /\ r.grant = g /\ Active(r)
             ELSE \E c \in inquiry.held : Trusted(c) /\ Validates(t, c, g)
<1>1. AccessInit => AccessInv
  BY DEF AccessInit, AccessInv, InquiryInv, CacheInv, Parsed, CacheKey
<1>2. AccessNext /\ answer' # Never => Decide
  BY DEF AccessNext, RegistryNext, ConfigNext, RequestNext, ReadRegistry, WriteTemporary,
     Replace, GiveUp, Withdraw, Configure, Start, Arrive, ReadRecords, ConfigHit,
     ConfigMiss, ClockTicks
<1>3. ASSUME AccessInv, Decide, answer' # Never
      PROVE  Decided
  <2>1. PICK g \in Grants :
          /\ Principal(inquiry.token, inquiry.found, g)
          /\ answer' = [token |-> inquiry.token, principal |-> g, late |-> inquiry.late]
    BY <1>3 DEF Decide
  <2>2. answer'.token = inquiry.token /\ answer'.principal = g
    BY <2>1
  <2>3. /\ inquiry.found \in inquiry.held
        /\ ~IsLocal(inquiry.token) => Trusted(inquiry.found)
    BY <1>3 DEF Decide, Unread, AccessInv, InquiryInv
  <2>4. CASE IsLocal(inquiry.token)
    <3>1. \A records \in inquiry.held : \A r \in records : r.secret = inquiry.token
      BY <1>3, <2>4 DEF Decide, AccessInv, InquiryInv
    <3> QED
      BY <2>1, <2>2, <2>3, <2>4, <3>1 DEF Principal
  <2>5. CASE ~IsLocal(inquiry.token)
    BY <2>1, <2>2, <2>3, <2>5 DEF Principal
  <2> QED
    BY <2>4, <2>5
<1>4. AccessInv /\ [AccessNext]_accessVars => [Decided]_accessVars
  BY <1>2, <1>3
<1> QED
  BY <1>1, <1>4, AccessStep, PTL DEF AccessSpec, DecidedInItsTime

------------------------------------------------------------------------------
(* Chains of events *)

\* A nonempty set of positions has a last one.
LEMMA LastOne ==
  ASSUME NEW n \in Nat, NEW S \in SUBSET (1 .. n), S # {}
  PROVE  \E i \in S : \A j \in S : j =< i
<1> DEFINE T == {k \in Nat : n - k \in S}
<1>1. PICK s \in S : TRUE
  OBVIOUS
<1>2. n - s \in T
  <2>1. n - s \in Nat /\ n - (n - s) = s
    BY <1>1
  <2> QED
    BY <2>1, <1>1
<1>3. PICK k \in T : \A y \in T : ~ (<< y, k >> \in OpToRel(<, Nat))
  <2>1. T \subseteq Nat /\ T # {}
    BY <1>2
  <2> HIDE DEF T
  <2> QED
    BY <2>1, NatLessThanWellFounded, WFMin
<1>4. \A y \in T : k =< y
  <2> TAKE y \in T
  <2>1. ~ (<< y, k >> \in {ss \in Nat \X Nat : ss[1] < ss[2]})
    BY <1>3 DEF OpToRel
  <2> QED
    BY <2>1
<1>5. \A j \in S : j =< n - k
  <2> TAKE j \in S
  <2>1. n - j \in Nat /\ n - (n - j) = j
    OBVIOUS
  <2>2. k =< n - j
    BY <2>1, <1>4
  <2> QED
    BY <2>2
<1> QED
  BY <1>5

List(events) == \E S : events \in Seq(S)

\* A history that verifies.
Sound(events) == List(events) /\ Chained(events)

\* The first n events.
First(events, n) == SubSeq(events, 1, n)

\* The first events of a history are as they were.
LEMMA Prefix ==
  ASSUME NEW events, List(events), NEW n \in 0 .. Len(events)
  PROVE  /\ List(First(events, n)) /\ Len(First(events, n)) = n /\ Len(events) \in Nat
         /\ \A i \in 1 .. n : First(events, n)[i] = events[i]
         /\ HeadOf(First(events, n)) = IF n = 0 THEN Genesis ELSE events[n]
<1>1. PICK S : events \in Seq(S)
  BY DEF List
<1>2. \A i \in 1 .. n : events[i] \in S
  BY <1>1
<1>3. /\ First(events, n) \in Seq(S) /\ Len(First(events, n)) = n
      /\ \A i \in 1 .. n : First(events, n)[i] = events[i]
  BY <1>1, <1>2, SubSeqProperties DEF First
<1> QED
  BY <1>1, <1>3 DEF List, HeadOf, Hash

\* Histories of one length with the same events are the same.
LEMMA SameEvents ==
  ASSUME NEW a, NEW b, List(a), List(b), Len(a) = Len(b),
         \A i \in 1 .. Len(a) : a[i] = b[i]
  PROVE  a = b
BY DEF List

\* An event holds the hash of the event before it, so the hash of an event
\* holds all that came before (digest(event)).
LEMMA ChainBinds ==
  ASSUME NEW a, NEW b, Sound(a), Sound(b), NEW n \in 1 .. Len(a), n =< Len(b), a[n] = b[n]
  PROVE  First(a, n) = First(b, n)
<1>1. Len(a) \in Nat /\ Len(b) \in Nat
  BY DEF Sound, List
<1> DEFINE D == {i \in 1 .. n : a[i] # b[i]}
<1>2. ASSUME D # {} PROVE FALSE
  <2>1. PICK j \in D : \A i \in D : i =< j
    <3>1. n \in Nat /\ D \in SUBSET (1 .. n)
      BY <1>1
    <3> HIDE DEF D
    <3> QED
      BY <1>2, <3>1, LastOne
  <2>2. j \in 1 .. n - 1 /\ j + 1 \in 1 .. Len(a) /\ j + 1 \in 1 .. Len(b)
    BY <1>1, <2>1
  <2>3. a[j + 1] = b[j + 1]
    BY <1>1, <2>1, <2>2
  <2>4. a[j + 1].previous = HeadOf(First(a, j)) /\ b[j + 1].previous = HeadOf(First(b, j))
    <3>1. (j + 1) - 1 = j
      BY <2>2
    <3> QED
      BY <2>2, <3>1 DEF Sound, Chained, First
  <2>5. HeadOf(First(a, j)) = a[j] /\ HeadOf(First(b, j)) = b[j]
    BY <1>1, <2>2, Prefix DEF Sound
  <2> QED
    BY <2>1, <2>3, <2>4, <2>5
<1>3. \A i \in 1 .. n : a[i] = b[i]
  BY <1>2
<1> QED
  BY <1>1, <1>3, Prefix, SameEvents DEF Sound

\* One more event is numbered and chained (Store.event).
LEMMA RecordSound ==
  ASSUME NEW events, Sound(events) \/ events = << >>, NEW entity, NEW id, NEW content
  PROVE  /\ Sound(Recorded(events, entity, id, content))
         /\ Len(Recorded(events, entity, id, content)) = Len(events) + 1
         /\ Len(events) \in Nat
         /\ First(Recorded(events, entity, id, content), Len(events)) = events
<1> DEFINE n == Len(events)
           e == [seq |-> n + 1, previous |-> HeadOf(events), entity |-> entity,
                 id |-> id, content |-> content, at |-> now]
           t == Recorded(events, entity, id, content)
<1>1. List(events) /\ n \in Nat
  <2>1. List(<< >>)
    BY DEF List
  <2>2. List(events)
    BY <2>1 DEF Sound
  <2> QED
    BY <2>2 DEF List
<1>2. /\ List(t) /\ Len(t) = n + 1 /\ t # << >> /\ t[n + 1] = e
      /\ \A i \in 1 .. n : t[i] = events[i]
  <2>1. PICK S : events \in Seq(S)
    BY <1>1 DEF List
  <2>2. t = Append(events, e)
    BY DEF Recorded
  <2> HIDE DEF e, t
  <2>3. events \in Seq(S \cup {e}) /\ e \in S \cup {e}
    BY <2>1
  <2> QED
    BY <2>2, <2>3, AppendProperties DEF List
<1> HIDE DEF t, n
<1>3. First(t, n) = events
  <2>1. n \in 0 .. Len(t)
    BY <1>1, <1>2
  <2>2. List(First(t, n)) /\ Len(First(t, n)) = n /\ \A i \in 1 .. n : First(t, n)[i] = t[i]
    BY <1>2, <2>1, Prefix
  <2> QED
    BY <1>1, <1>2, <2>2, SameEvents DEF n
<1>4. ASSUME NEW i \in 1 .. n
      PROVE  t[i].seq = i /\ t[i].previous = HeadOf(First(t, i - 1))
  <2>1. Sound(events)
    BY <1>1, <1>4 DEF n
  <2>2. events[i].seq = i /\ events[i].previous = HeadOf(First(events, i - 1))
    BY <1>4, <2>1 DEF Sound, Chained, First, n
  <2>3. i - 1 \in 0 .. Len(events) /\ i - 1 \in 0 .. Len(t) /\ i - 1 \in 0 .. n
    BY <1>1, <1>2, <1>4 DEF n
  <2>4. HeadOf(First(events, i - 1)) = HeadOf(First(t, i - 1))
    <3>1. i - 1 # 0 => t[i - 1] = events[i - 1]
      BY <1>2, <2>3
    <3> QED
      BY <1>1, <1>2, <2>3, <3>1, Prefix
  <2> QED
    BY <1>2, <2>2, <2>4
<1>5. t[n + 1].seq = n + 1 /\ t[n + 1].previous = HeadOf(First(t, (n + 1) - 1))
  BY <1>1, <1>2, <1>3
<1>6. Chained(t)
  BY <1>1, <1>2, <1>4, <1>5 DEF Chained, First
<1> QED
  BY <1>1, <1>2, <1>3, <1>6 DEF Sound, t, n

------------------------------------------------------------------------------
(* Checkpoints *)

\* Database and backup verify, and the last claim is of a history that did.
CheckpointInv ==
  /\ Sound(audit) /\ retained \in Nat
  /\ backup # None => Sound(backup)
  /\ claim # None => /\ Sound(claim.history)
                     /\ claim.sequence = Len(claim.history)
                     /\ claim.sha256 = HeadOf(claim.history)

\* A database that verifies goes on to verify, also when put back (restore).
LEMMA ChainStep ==
  ASSUME Sound(audit), backup # None => Sound(backup), ChainNext
  PROVE  Sound(audit') /\ (backup' # None => Sound(backup'))
<1>1. ASSUME NEW entity, NEW id, NEW content, Record(entity, id, content)
      PROVE  Sound(audit') /\ backup' = backup
  BY <1>1, RecordSound DEF Record
<1> QED
  BY <1>1 DEF ChainNext, Change, Freeze, BackUp, Restore, Tick

\* A new database has one event, and nothing is signed or backed up.
LEMMA CheckpointStarts == CheckpointInit => CheckpointInv
BY RecordSound DEF CheckpointInit, ChainInit, CheckpointInv

\* Every write, restore, signature and audit keeps the invariant.
LEMMA CheckpointStep ==
  ASSUME CheckpointInv, [CheckpointNext]_checkpointVars
  PROVE  CheckpointInv'
<1>1. CASE ChainNext /\ UNCHANGED << claim, retained >>
  BY <1>1, ChainStep DEF CheckpointInv
<1>2. ASSUME NEW subject \in Subjects, Checkpoint(subject)
      PROVE  CheckpointInv'
  BY <1>2 DEF Checkpoint, CheckpointInv
<1>3. ASSUME NEW subject \in Subjects, Audit(subject)
      PROVE  CheckpointInv'
  <2>1. claim.sequence \in Nat
    BY <1>3 DEF Audit, CheckpointInv, Sound, List
  <2> QED
    BY <1>3, <2>1 DEF Audit, CheckpointInv
<1>4. CASE UNCHANGED checkpointVars
  BY <1>4 DEF checkpointVars, CheckpointInv
<1> QED
  BY <1>1, <1>2, <1>3, <1>4 DEF CheckpointNext

\* The event with the signed hash is there exactly if all before it is.
LEMMA CheckpointShows == CheckpointInv => CheckpointBindsHistory
<1> SUFFICES ASSUME CheckpointInv, claim # None, NEW subject \in Subjects
             PROVE  /\ ClaimHolds(subject, 0) =>
                         (CheckpointHolds(audit, subject, 0)
                            <=> /\ Len(claim.history) =< Len(audit)
                                /\ SubSeq(audit, 1, Len(claim.history)) = claim.history)
                    /\ CheckpointHolds(audit, subject, retained) => Len(audit) >= retained
  BY DEF CheckpointBindsHistory
<1> DEFINE old == claim.history
           n == Len(old)
<1>1. /\ Sound(audit) /\ Sound(old) /\ claim.sequence = n
      /\ n \in Nat /\ n > 0 /\ Len(audit) \in Nat
  BY DEF CheckpointInv, Sound, List, Chained
<1>2. claim.sha256 = old[n] /\ First(old, n) = old
  <2>1. List(First(old, n)) /\ Len(First(old, n)) = n /\ \A i \in 1 .. n : First(old, n)[i] = old[i]
    BY <1>1, Prefix DEF Sound
  <2>2. First(old, n) = old
    BY <1>1, <2>1, SameEvents DEF Sound
  <2> QED
    BY <1>1, <2>2 DEF CheckpointInv, HeadOf, Hash
<1> HIDE DEF old, n
<1>3. ASSUME CheckpointHolds(audit, subject, 0)
      PROVE  n =< Len(audit) /\ First(audit, n) = old
  <2>1. n =< Len(audit) /\ audit[n] = old[n]
    BY <1>1, <1>2, <1>3 DEF CheckpointHolds, Hash
  <2>2. n \in 1 .. Len(audit) /\ n =< Len(old)
    BY <1>1, <2>1 DEF n
  <2> QED
    BY <1>1, <1>2, <2>1, <2>2, ChainBinds
<1>4. ASSUME n =< Len(audit), First(audit, n) = old, ClaimHolds(subject, 0)
      PROVE  CheckpointHolds(audit, subject, 0)
  <2>1. First(audit, n)[n] = audit[n]
    BY <1>1, <1>4, Prefix DEF Sound
  <2> QED
    BY <1>1, <1>2, <1>4, <2>1 DEF CheckpointHolds, Hash, Sound
<1>5. CheckpointHolds(audit, subject, retained) => Len(audit) >= retained
  BY <1>1 DEF CheckpointHolds, ClaimHolds, CheckpointInv
<1> QED
  BY <1>3, <1>4, <1>5 DEF First, n, old

\* A checkpoint verifies exactly for the databases that begin with all that
\* was signed, and an auditor's minimum finds out what was put back, for
\* histories of any length and any number of backups, restores and audits.
THEOREM CheckpointsBind == CheckpointSpec => []CheckpointBindsHistory
BY CheckpointStarts, CheckpointStep, CheckpointShows, PTL DEF CheckpointSpec

------------------------------------------------------------------------------
(* Bundles *)

\* What freeze() records on the history events.
Frozen(events, id) ==
  [id |-> id, policy |-> Seen(events, "policy", "policy"), audit_head |-> HeadOf(events),
   waivers |-> [w \in {v \in Waivers : Seen(events, "waivers", v) # None} |->
                  Seen(events, "waivers", w)]]

IsFreeze(event) == event.entity = "snapshots"

\* Each freeze recorded the history before it, under an identifier that was
\* drawn for it alone.
Freezes(events, drawn) ==
  /\ Sound(events)
  /\ \A i \in 1 .. Len(events) : IsFreeze(events[i]) =>
       /\ events[i].id \in drawn
       /\ events[i].content = Frozen(First(events, i - 1), events[i].id)
       /\ \A j \in 1 .. Len(events) :
            IsFreeze(events[j]) /\ events[j].id = events[i].id => j = i

\* A bundle made of a history that ends with its freeze.
BundleSound(b) ==
  LET n == Len(b.events)
      freeze == b.events[n] IN
  /\ Sound(b.events) /\ IsFreeze(freeze)
  /\ freeze.content = Frozen(First(b.events, n - 1), freeze.id)
  /\ b = [manifest |-> [snapshot_id |-> freeze.id, audit_head |-> HeadOf(b.events)],
          snapshot |-> freeze.content, events |-> b.events,
          waivers |-> freeze.content.waivers]

BundleInv ==
  /\ Freezes(audit, frozen)
  /\ backup # None => Freezes(backup, frozen)
  /\ Len(exports) \in 0 .. 2
  /\ \A i \in 1 .. Len(exports) : BundleSound(exports[i])

\* A freeze changes what was last seen of nothing but snapshots.
LEMMA FreezeUnseen ==
  ASSUME NEW events, Sound(events), IsFreeze(events[Len(events)]),
         NEW entity, entity # "snapshots", NEW id
  PROVE  Seen(events, entity, id) = Seen(First(events, Len(events) - 1), entity, id)
<1> DEFINE n == Len(events)
           before == First(events, n - 1)
           about == {i \in 1 .. n : events[i].entity = entity /\ events[i].id = id}
           prior == {i \in 1 .. Len(before) : before[i].entity = entity /\ before[i].id = id}
<1>1. n \in Nat /\ n > 0
  BY DEF Sound, List, Chained
<1>2. Len(before) = n - 1 /\ \A i \in 1 .. n - 1 : before[i] = events[i]
  BY <1>1, Prefix DEF Sound
<1>3. n \notin about
  BY DEF IsFreeze
<1>4. about = prior
  BY <1>1, <1>2, <1>3
<1>5. CASE about = {}
  BY <1>4, <1>5 DEF Seen
<1>6. CASE about # {}
  <2> DEFINE last == CHOOSE i \in about : \A j \in about : j =< i
  <2>1. \E i \in about : \A j \in about : j =< i
    <3>1. about \in SUBSET (1 .. n)
      OBVIOUS
    <3> HIDE DEF about
    <3> QED
      BY <1>1, <1>6, <3>1, LastOne
  <2>2. last \in about
    BY <2>1
  <2>3. events[last] = before[last]
    BY <1>1, <1>2, <1>3, <2>2
  <2>4. Seen(events, entity, id) = events[last].content
    BY <1>6 DEF Seen
  <2>5. Seen(before, entity, id) = before[last].content
    BY <1>4, <1>6 DEF Seen
  <2> QED
    BY <2>3, <2>4, <2>5
<1> QED
  BY <1>5, <1>6

\* A bundle verifies by itself (verify_evidence).
LEMMA SoundVerifies ==
  ASSUME NEW b, BundleSound(b)
  PROVE  EvidenceHolds(b)
<1> DEFINE n == Len(b.events)
           freeze == b.events[n]
           before == First(b.events, n - 1)
<1>1. /\ Sound(b.events) /\ IsFreeze(freeze) /\ freeze.content = Frozen(before, freeze.id)
      /\ b.manifest.snapshot_id = freeze.id /\ b.manifest.audit_head = HeadOf(b.events)
      /\ b.snapshot = freeze.content /\ b.waivers = freeze.content.waivers
  BY DEF BundleSound
<1>2. /\ b.snapshot.id = freeze.id /\ b.snapshot.audit_head = HeadOf(before)
      /\ b.snapshot.policy = Seen(before, "policy", "policy")
      /\ \A w \in DOMAIN b.snapshot.waivers :
           b.snapshot.waivers[w] = Seen(before, "waivers", w)
  BY <1>1 DEF Frozen
<1>3. /\ Seen(b.events, "policy", "policy") = Seen(before, "policy", "policy")
      /\ \A w : Seen(b.events, "waivers", w) = Seen(before, "waivers", w)
  BY <1>1, FreezeUnseen
<1>4. freeze.previous = HeadOf(before)
  BY <1>1 DEF Sound, List, Chained, First
<1> QED
  BY <1>1, <1>2, <1>3, <1>4 DEF EvidenceHolds, FreezeBindsSnapshot, FilesAreRecords,
     IsFreeze, Sound

\* A mixture that verifies is the bundle whose events it has: their head
\* names the manifest, and their last event the snapshot and its records.
LEMMA MixtureIsBundle ==
  ASSUME NEW a, NEW b, NEW c, NEW d,
         BundleSound(a), BundleSound(b), BundleSound(c), BundleSound(d),
         EvidenceHolds([manifest |-> a.manifest, snapshot |-> b.snapshot,
                        events |-> c.events, waivers |-> d.waivers])
  PROVE  [manifest |-> a.manifest, snapshot |-> b.snapshot,
          events |-> c.events, waivers |-> d.waivers] = c
<1> DEFINE mix == [manifest |-> a.manifest, snapshot |-> b.snapshot,
                   events |-> c.events, waivers |-> d.waivers]
           freeze == c.events[Len(c.events)]
<1>1. /\ c.snapshot = freeze.content /\ c.waivers = freeze.content.waivers
      /\ c.manifest = [snapshot_id |-> freeze.id, audit_head |-> HeadOf(c.events)]
      /\ c = [manifest |-> c.manifest, snapshot |-> c.snapshot, events |-> c.events,
              waivers |-> c.waivers]
  BY DEF BundleSound
<1>2. \E id, head : a.manifest = [snapshot_id |-> id, audit_head |-> head]
  BY DEF BundleSound
<1>3. /\ a.manifest.snapshot_id = b.snapshot.id
      /\ a.manifest.audit_head = HeadOf(c.events)
      /\ freeze.id = b.snapshot.id /\ freeze.content = b.snapshot
      /\ d.waivers = b.snapshot.waivers
  BY DEF EvidenceHolds, FreezeBindsSnapshot, FilesAreRecords
<1>4. a.manifest = c.manifest
  BY <1>1, <1>2, <1>3
<1> QED
  BY <1>1, <1>3, <1>4

\* The beginning of a beginning.
LEMMA PrefixOfPrefix ==
  ASSUME NEW events, List(events), NEW n \in 0 .. Len(events), NEW m \in 0 .. n
  PROVE  First(First(events, n), m) = First(events, m)
<1>1. Len(events) \in Nat /\ m \in 0 .. Len(events)
  BY DEF List
<1>2. /\ List(First(events, n)) /\ Len(First(events, n)) = n
      /\ \A i \in 1 .. n : First(events, n)[i] = events[i]
  BY Prefix
<1>3. /\ List(First(events, m)) /\ Len(First(events, m)) = m
      /\ \A i \in 1 .. m : First(events, m)[i] = events[i]
  BY <1>1, Prefix
<1>4. /\ List(First(First(events, n), m)) /\ Len(First(First(events, n), m)) = m
      /\ \A i \in 1 .. m : First(First(events, n), m)[i] = First(events, n)[i]
  BY <1>2, Prefix
<1>5. \A i \in 1 .. m : First(First(events, n), m)[i] = First(events, m)[i]
  BY <1>1, <1>2, <1>3, <1>4
<1> QED
  BY <1>3, <1>4, <1>5, SameEvents

\* The beginning of a history is one.
LEMMA FirstSound ==
  ASSUME NEW events, Sound(events), NEW n \in 1 .. Len(events)
  PROVE  Sound(First(events, n))
<1>1. Len(events) \in Nat /\ List(events)
  BY DEF Sound, List
<1>2. /\ List(First(events, n)) /\ Len(First(events, n)) = n
      /\ \A i \in 1 .. n : First(events, n)[i] = events[i]
  BY <1>1, Prefix
<1>3. ASSUME NEW i \in 1 .. n
      PROVE  /\ First(events, n)[i].seq = i
             /\ First(events, n)[i].previous = HeadOf(First(First(events, n), i - 1))
  <2>1. i \in 1 .. Len(events) /\ i - 1 \in 0 .. n
    BY <1>1
  <2>2. events[i].seq = i /\ events[i].previous = HeadOf(First(events, i - 1))
    BY <2>1 DEF Sound, Chained, First
  <2>3. First(First(events, n), i - 1) = First(events, i - 1)
    BY <1>1, <2>1, PrefixOfPrefix
  <2> QED
    BY <1>2, <2>2, <2>3
<1>4. First(events, n) # << >>
  BY <1>2
<1> QED
  BY <1>2, <1>3, <1>4 DEF Sound, Chained, First

\* One more event leaves earlier freezes alone, and a freeze draws a new
\* identifier (freeze).
LEMMA RecordFreezes ==
  ASSUME NEW events, NEW drawn, NEW more, Freezes(events, drawn), drawn \subseteq more,
         NEW entity, NEW id, NEW content,
         entity = "snapshots" => /\ id \in more \ drawn
                                 /\ content = Frozen(events, id)
  PROVE  Freezes(Recorded(events, entity, id, content), more)
<1> DEFINE n == Len(events)
           t == Recorded(events, entity, id, content)
<1>1. /\ Sound(t) /\ Len(t) = n + 1 /\ n \in Nat /\ First(t, n) = events /\ List(t)
  BY RecordSound DEF Freezes, Sound
<1>2. t[n + 1].entity = entity /\ t[n + 1].id = id /\ t[n + 1].content = content
  <2> DEFINE e == [seq |-> n + 1, previous |-> HeadOf(events), entity |-> entity,
                   id |-> id, content |-> content, at |-> now]
  <2>1. PICK S : events \in Seq(S)
    BY DEF Freezes, Sound, List
  <2>2. t = Append(events, e)
    BY DEF Recorded
  <2>3. e.entity = entity /\ e.id = id /\ e.content = content
    OBVIOUS
  <2> HIDE DEF e, t
  <2>4. t[n + 1] = e
    <3>1. events \in Seq(S \cup {e}) /\ e \in S \cup {e}
      BY <2>1
    <3> QED
      BY <2>2, <3>1, AppendProperties
  <2> QED
    BY <2>3, <2>4
<1> HIDE DEF n, t
<1>3. \A i \in 1 .. n : t[i] = events[i]
  <2>1. \A i \in 1 .. n : First(t, n)[i] = t[i]
    BY <1>1, Prefix
  <2> QED
    BY <1>1, <2>1
<1>4. ASSUME NEW i \in 0 .. n PROVE First(t, i) = First(events, i)
  BY <1>1, <1>4, PrefixOfPrefix
<1>5. ASSUME NEW i \in 1 .. Len(t), IsFreeze(t[i])
      PROVE  /\ t[i].id \in more
             /\ t[i].content = Frozen(First(t, i - 1), t[i].id)
             /\ \A j \in 1 .. Len(t) : IsFreeze(t[j]) /\ t[j].id = t[i].id => j = i
  <2>1. \A j \in 1 .. n : IsFreeze(t[j]) =>
          /\ t[j].id \in drawn
          /\ t[j].content = Frozen(First(events, j - 1), t[j].id)
          /\ \A k \in 1 .. n : IsFreeze(t[k]) /\ t[k].id = t[j].id => k = j
    BY <1>3 DEF Freezes, n
  <2>2. IsFreeze(t[n + 1]) => id \in more \ drawn /\ content = Frozen(events, id)
    BY <1>2 DEF IsFreeze
  <2>3. CASE i \in 1 .. n
    <3>1. First(t, i - 1) = First(events, i - 1)
      BY <1>1, <1>4, <2>3
    <3> QED
      BY <1>1, <1>2, <1>5, <2>1, <2>2, <2>3, <3>1
  <2>4. CASE i = n + 1
    <3>1. First(t, i - 1) = events
      BY <1>1, <2>4
    <3> QED
      BY <1>1, <1>2, <1>5, <2>1, <2>2, <2>4, <3>1
  <2> QED
    BY <1>1, <2>3, <2>4
<1> QED
  BY <1>1, <1>5 DEF Freezes, t

\* More identifiers may be drawn than are in the history.
LEMMA DrawMore ==
  ASSUME NEW events, NEW drawn, NEW more, Freezes(events, drawn), drawn \subseteq more
  PROVE  Freezes(events, more)
BY DEF Freezes

\* What is exported is the history up to its one freeze (bundle).
LEMMA ExportSound ==
  ASSUME Freezes(audit, frozen), NEW id, Seen(audit, "snapshots", id) # None
  PROVE  BundleSound(Bundle(audit, id))
<1> DEFINE n == Len(audit)
           about == {i \in 1 .. n : audit[i].entity = "snapshots" /\ audit[i].id = id}
<1>1. Sound(audit) /\ List(audit) /\ n \in Nat
  BY DEF Freezes, Sound, List
<1>2. about # {} /\ Seen(audit, "snapshots", id) =
        audit[CHOOSE i \in about : \A j \in about : j =< i].content
  BY DEF Seen
<1>3. PICK k \in about : TRUE
  BY <1>2
<1>4. about = {k} /\ k \in 1 .. n /\ IsFreeze(audit[k]) /\ audit[k].id = id
  BY <1>3 DEF Freezes, IsFreeze
<1>5. /\ (CHOOSE i \in about : \A j \in about : j =< i) = k
      /\ (CHOOSE i \in about : \A j \in about : i =< j) = k
  BY <1>1, <1>4
<1> DEFINE captured == First(audit, k)
<1>6. Captured(audit, id) = captured /\ Seen(audit, "snapshots", id) = audit[k].content
  BY <1>2, <1>5 DEF Captured, First
<1>7. /\ Sound(captured) /\ Len(captured) = k /\ captured[k] = audit[k]
      /\ First(captured, k - 1) = First(audit, k - 1)
  <2>1. k \in 0 .. n /\ k - 1 \in 0 .. k
    BY <1>1, <1>4
  <2>2. Len(captured) = k /\ captured[k] = audit[k]
    BY <1>1, <1>4, <2>1, Prefix
  <2>3. First(captured, k - 1) = First(audit, k - 1)
    BY <1>1, <2>1, PrefixOfPrefix
  <2> QED
    BY <1>1, <1>4, <2>2, <2>3, FirstSound
<1>8. audit[k].content = Frozen(First(audit, k - 1), id)
  BY <1>4 DEF Freezes
<1>9. Bundle(audit, id) =
        [manifest |-> [snapshot_id |-> id, audit_head |-> HeadOf(captured)],
         snapshot |-> audit[k].content, events |-> captured,
         waivers |-> audit[k].content.waivers]
  BY <1>6 DEF Bundle
<1> HIDE DEF captured
<1> QED
  BY <1>4, <1>7, <1>8, <1>9 DEF BundleSound

\* Every write, freeze, backup, restore and export keeps the invariant.
LEMMA BundleStep ==
  ASSUME BundleInv, [BundleNext]_bundleVars
  PROVE  BundleInv'
<1>1. ASSUME NEW entity \in {"policy", "waivers"}, NEW id, NEW text, Change(entity, id, text)
      PROVE  Freezes(audit', frozen') /\ backup' = backup /\ frozen' = frozen
  BY <1>1, RecordFreezes DEF Change, Record, BundleInv
<1>2. ASSUME NEW id, Freeze(id)
      PROVE  /\ Freezes(audit', frozen') /\ backup' = backup /\ frozen \subseteq frozen'
  BY <1>2, RecordFreezes DEF Freeze, Record, Frozen, BundleInv
<1>3. CASE ChainNext /\ UNCHANGED exports
  <2>1. Freezes(audit', frozen') /\ frozen \subseteq frozen'
    BY <1>1, <1>2, <1>3 DEF ChainNext, BackUp, Restore, Tick, BundleInv
  <2>2. backup' # None => Freezes(backup', frozen')
    BY <1>1, <1>2, <1>3, DrawMore DEF ChainNext, BackUp, Restore, Tick, BundleInv
  <2> QED
    BY <1>3, <2>1, <2>2 DEF BundleInv
<1>4. ASSUME NEW id \in Snapshots, Export(id)
      PROVE  BundleInv'
  <2> DEFINE b == Bundle(audit, id)
  <2>1. BundleSound(b)
    BY <1>4, ExportSound DEF Export, BundleInv
  <2>2. exports' = IF Len(exports) < 2 THEN Append(exports, b) ELSE << exports[2], b >>
    BY <1>4 DEF Export
  <2> HIDE DEF b
  <2>3. Len(exports') \in 0 .. 2 /\ \A i \in 1 .. Len(exports') : BundleSound(exports'[i])
    <3>1. CASE Len(exports) < 2
      <4>1. exports' = Append(exports, b)
        BY <2>2, <3>1
      <4> QED
        BY <2>1, <3>1, <4>1 DEF BundleInv
    <3>2. CASE ~(Len(exports) < 2)
      <4>1. exports' = << exports[2], b >> /\ BundleSound(exports[2])
        BY <2>2, <3>2 DEF BundleInv
      <4> QED
        BY <2>1, <4>1
    <3> QED
      BY <3>1, <3>2
  <2>4. UNCHANGED << audit, backup, frozen >>
    BY <1>4 DEF Export
  <2> QED
    BY <2>3, <2>4 DEF BundleInv
<1>5. CASE UNCHANGED bundleVars
  BY <1>5 DEF bundleVars, BundleInv
<1> QED
  BY <1>3, <1>4, <1>5 DEF BundleNext

\* A new database has frozen and exported nothing.
LEMMA BundleStarts == BundleInit => BundleInv
<1> SUFFICES ASSUME BundleInit PROVE BundleInv
  OBVIOUS
<1>1. PICK text \in Texts : audit = Recorded(<< >>, "policy", "policy", text)
  BY DEF BundleInit, ChainInit
<1>2. Sound(audit) /\ Len(audit) = 1
  <2>1. Sound(audit)
    BY <1>1, RecordSound
  <2>2. Len(audit) = 1
    BY <1>1 DEF Recorded
  <2> QED
    BY <2>1, <2>2
<1>3. audit[1].entity = "policy"
  BY <1>1 DEF Recorded
<1>4. Freezes(audit, frozen)
  BY <1>2, <1>3 DEF Freezes, IsFreeze
<1> QED
  BY <1>4 DEF BundleInit, ChainInit, BundleInv

\* Bundles verify, and of their mixtures only they do.
LEMMA BundlesShow == BundleInv => BundlesVerifyWhole
<1> SUFFICES ASSUME BundleInv, NEW package \in Mixed
             PROVE  EvidenceHolds(package) <=> \E i \in 1 .. Len(exports) : package = exports[i]
  BY DEF BundlesVerifyWhole
<1>1. \A i \in 1 .. Len(exports) : BundleSound(exports[i])
  BY DEF BundleInv
<1>2. PICK i, j, k, l \in 1 .. Len(exports) :
        package = [manifest |-> exports[i].manifest, snapshot |-> exports[j].snapshot,
                   events |-> exports[k].events, waivers |-> exports[l].waivers]
  BY DEF Mixed
<1>3. EvidenceHolds(package) => package = exports[k]
  BY <1>1, <1>2, MixtureIsBundle
<1>4. \A m \in 1 .. Len(exports) : EvidenceHolds(exports[m])
  BY <1>1, SoundVerifies
<1> QED
  BY <1>3, <1>4

\* A bundle verifies without its database, and files of two bundles only as
\* one of the two, for histories of any length, however much was written,
\* frozen, restored or exported in between.
THEOREM BundlesWhole == BundleSpec => []BundlesVerifyWhole
BY BundleStarts, BundleStep, BundlesShow, PTL DEF BundleSpec

------------------------------------------------------------------------------
(* One of them at a time *)

\* What is not kept in a behaviour rests: nothing is signed, exported or
\* created.
KeptInv ==
  /\ KeyInv
  /\ IF keeps = "checkpoints" THEN CheckpointInv ELSE claim = None
  /\ IF keeps = "bundles" THEN BundleInv ELSE exports = << >>

\* A step is one of what is kept, and changes nothing of the rest.
LEMMA KeptStep ==
  ASSUME KeptInv, [KeptNext]_keptVars
  PROVE  KeptInv'
<1>1. keeps' = keeps
  BY DEF KeptNext, keptVars
<1>2. [KeyNext]_keyVars
  BY DEF KeptNext, keptVars
<1>3. KeyInv'
  BY <1>2, KeyStep DEF KeptInv
<1>4. keeps = "checkpoints" => CheckpointInv'
  <2>1. keeps = "checkpoints" => [CheckpointNext]_checkpointVars
    BY DEF KeptNext, keptVars, historyVars, checkpointVars
  <2> QED
    BY <2>1, CheckpointStep DEF KeptInv
<1>5. keeps = "bundles" => BundleInv'
  <2>1. keeps = "bundles" => [BundleNext]_bundleVars
    BY DEF KeptNext, keptVars, historyVars, bundleVars
  <2> QED
    BY <2>1, BundleStep DEF KeptInv
<1>6. keeps # "checkpoints" => claim' = claim
  BY DEF KeptNext, keptVars, historyVars
<1>7. keeps # "bundles" => exports' = exports
  BY DEF KeptNext, keptVars, historyVars
<1> QED
  BY <1>1, <1>3, <1>4, <1>5, <1>6, <1>7 DEF KeptInv

\* Whatever is kept, it is what its users take it for.
THEOREM KeptSound == KeptSpec => [](KeysAreWhole /\ CheckpointBindsHistory /\ BundlesVerifyWhole)
<1>1. KeptInit => KeptInv
  <2> SUFFICES ASSUME KeptInit PROVE KeptInv
    OBVIOUS
  <2>1. KeyInv /\ CheckpointInv /\ BundleInv
    BY KeyStarts, CheckpointStarts, BundleStarts DEF KeptInit
  <2>2. claim = None /\ exports = << >>
    BY DEF KeptInit, CheckpointInit, BundleInit
  <2> QED
    BY <2>1, <2>2 DEF KeptInv, CheckpointInv
<1>2. KeptInv /\ [KeptNext]_keptVars => KeptInv'
  BY KeptStep
<1>3. KeptInv => KeysAreWhole /\ CheckpointBindsHistory /\ BundlesVerifyWhole
  <2> SUFFICES ASSUME KeptInv
               PROVE  KeysAreWhole /\ CheckpointBindsHistory /\ BundlesVerifyWhole
    OBVIOUS
  <2>1. KeysAreWhole
    BY KeysShow DEF KeptInv
  <2>2. CheckpointBindsHistory
    BY CheckpointShows DEF KeptInv, CheckpointBindsHistory
  <2>3. BundlesVerifyWhole
    <3>1. exports = << >> => Mixed = {}
      BY DEF Mixed
    <3> QED
      BY <3>1, BundlesShow DEF KeptInv, BundlesVerifyWhole
  <2> QED
    BY <2>1, <2>2, <2>3
<1> QED
  BY <1>1, <1>2, <1>3, PTL DEF KeptSpec

===============================================================================
