--------------------------- MODULE ProjectProofs ---------------------------
(* A command that fails has undone what it did: first for any command, any *)
(* number of files, any contents, any nesting of snapshots and any number  *)
(* of faults, then for the commands of Project, which are such commands.   *)
EXTENDS Project, SequenceTheorems, TLAPS

(* A sequence of frames, whatever they hold.                               *)
SeqOfFrames(s) == \E S : s \in Seq(S)

Maps ==
  /\ tree = [p \in Path |-> tree[p]]
  /\ before = [p \in Path |-> before[p]]
  /\ SeqOfFrames(snapshots)

(* Where a frame and the tree differ from what the command found.          *)
FramesTrue ==
  \A i \in 1..Len(snapshots) : \A p \in Path \intersect DOMAIN snapshots[i] :
    snapshots[i][p] # before[p] => p \in exposed \/ (i > 1 /\ p \in Covered)

TreeTrue ==
  status \in {"working", "undoing", "failed"} =>
    \A p \in Path : tree[p] # before[p] => p \in Covered \union exposed \union spoiled

Orderly ==
  /\ AtRest => snapshots = <<>>
  /\ status = "working" => spoiled = {}

FileInv == Maps /\ FramesTrue /\ TreeTrue /\ Orderly

-------------------------------------------------------------------------------
(* Sequences of frames.                                                    *)

LEMMA EmptySeqOfFrames == SeqOfFrames(<<>>) /\ Len(<<>>) = 0
<1>1. <<>> \in Seq({})
  OBVIOUS
<1>. QED
  BY <1>1 DEF SeqOfFrames

LEMMA OneFrame ==
  ASSUME NEW f
  PROVE  SeqOfFrames(<<f>>) /\ Len(<<f>>) = 1 /\ <<f>>[1] = f
<1>1. <<f>> \in Seq({f})
  OBVIOUS
<1>. QED
  BY <1>1 DEF SeqOfFrames

LEMMA AppendFrame ==
  ASSUME NEW s, SeqOfFrames(s), NEW f
  PROVE  /\ SeqOfFrames(Append(s, f))
         /\ Len(Append(s, f)) = Len(s) + 1
         /\ \A i \in 1..Len(s) : Append(s, f)[i] = s[i]
         /\ Append(s, f)[Len(s) + 1] = f
<1>1. PICK S : s \in Seq(S)
  BY DEF SeqOfFrames
<1>2. s \in Seq(S \union {f})
  BY <1>1
<1>3. Append(s, f) \in Seq(S \union {f})
  BY <1>2
<1>. QED
  BY <1>2, <1>3 DEF SeqOfFrames

LEMMA DropFrame ==
  ASSUME NEW s, SeqOfFrames(s), s # <<>>
  PROVE  /\ Len(s) \in Nat /\ Len(s) > 0
         /\ SeqOfFrames(SubSeq(s, 1, Len(s) - 1))
         /\ Len(SubSeq(s, 1, Len(s) - 1)) = Len(s) - 1
         /\ \A i \in 1..(Len(s) - 1) : SubSeq(s, 1, Len(s) - 1)[i] = s[i]
         /\ SubSeq(s, 1, Len(s) - 1) = <<>> <=> Len(s) = 1
<1>. DEFINE n == Len(s) - 1
            t == SubSeq(s, 1, n)
<1>1. PICK S : s \in Seq(S)
  BY DEF SeqOfFrames
<1>2. Len(s) \in Nat /\ Len(s) > 0
  BY <1>1, EmptySeq
<1>3. \A i \in 1..n : s[i] \in S
  BY <1>1, <1>2, LenProperties
<1>4. /\ t \in Seq(S)
      /\ Len(t) = IF 1 <= n THEN n - 1 + 1 ELSE 0
      /\ \A i \in 1..(n - 1 + 1) : t[i] = s[1 + i - 1]
  BY <1>2, <1>3, SubSeqProperties
<1>. HIDE DEF t
<1>5. Len(t) = n
  <2>1. n \in Nat
    BY <1>2
  <2>. HIDE DEF n
  <2>2. CASE 1 <= n
    BY <1>4, <2>1, <2>2
  <2>3. CASE ~(1 <= n)
    BY <1>4, <2>1, <2>3
  <2>. QED
    BY <2>2, <2>3
<1>6. \A i \in 1..n : t[i] = s[i]
  BY <1>2, <1>4
<1>7. t = <<>> <=> n = 0
  BY <1>4, <1>5, EmptySeq
<1>8. SeqOfFrames(t)
  BY <1>4 DEF SeqOfFrames
<1>. QED
  BY <1>2, <1>5, <1>6, <1>7, <1>8 DEF t

LEMMA SomeFrame ==
  ASSUME NEW s, SeqOfFrames(s)
  PROVE  Len(s) \in Nat /\ (s = <<>> <=> Len(s) = 0)
BY EmptySeq, LenProperties DEF SeqOfFrames

-------------------------------------------------------------------------------
(* With new content for some paths, the tree stays a tree.                 *)
LEMMA WithNew ==
  ASSUME NEW new
  PROVE  /\ With(new) = [p \in Path |-> With(new)[p]]
         /\ \A p \in Path : With(new)[p] = IF p \in DOMAIN new THEN new[p] ELSE tree[p]
BY DEF With

(* Begin, Put, Interrupt, Crash, Fail and Finish are the steps of a        *)
(* command, Undo and GiveUp those of its end.                              *)
LEMMA InitInv == FileInit => FileInv
BY EmptySeqOfFrames DEF FileInit, FileInv, Maps, FramesTrue, TreeTrue, Orderly, AtRest

LEMMA BeginInv ==
  ASSUME FileInv, NEW ps, Begin(<<>>) \/ Begin(<<Saved(ps)>>)
  PROVE  FileInv'
<1>1. before' = tree /\ tree' = tree /\ exposed' = {} /\ spoiled' = {} /\ status' = "working"
  BY DEF Begin
<1>2. CASE Begin(<<>>)
  <2>1. snapshots' = <<>> /\ SeqOfFrames(<<>>) /\ Len(<<>>) = 0
    BY <1>2, EmptySeqOfFrames DEF Begin
  <2>. QED
    BY <1>1, <2>1 DEF FileInv, Maps, FramesTrue, TreeTrue, Orderly, AtRest
<1>3. CASE Begin(<<Saved(ps)>>)
  <2>1. snapshots' = <<Saved(ps)>> /\ SeqOfFrames(<<Saved(ps)>>) /\ Len(<<Saved(ps)>>) = 1
        /\ <<Saved(ps)>>[1] = Saved(ps)
    BY <1>3, OneFrame DEF Begin
  <2>2. DOMAIN Saved(ps) = ps /\ \A p \in ps : Saved(ps)[p] = tree[p]
    BY DEF Saved
  <2>3. \A i \in 1..Len(snapshots') : snapshots'[i] = Saved(ps)
    BY <2>1
  <2>. HIDE DEF Saved
  <2>4. Maps'
    BY <1>1, <2>1, <2>2, <2>3 DEF FileInv, Maps
  <2>5. FramesTrue'
    BY <1>1, <2>2, <2>3 DEF FramesTrue
  <2>. QED
    BY <1>1, <2>4, <2>5 DEF FileInv, TreeTrue, Orderly, AtRest
<1>. QED
  BY <1>2, <1>3

LEMMA TakeSnapshotInv ==
  ASSUME FileInv, NEW ps, TakeSnapshot(ps)
  PROVE  FileInv'
<1>1. snapshots' = Append(snapshots, Saved(ps)) /\ status = "working"
      /\ UNCHANGED <<tree, status, before, exposed, spoiled, faults>>
  BY DEF TakeSnapshot
<1>2. DOMAIN Saved(ps) = ps /\ \A p \in ps : Saved(ps)[p] = tree[p]
  BY DEF Saved
<1>3. /\ SeqOfFrames(snapshots') /\ Len(snapshots) \in Nat
      /\ Len(snapshots') = Len(snapshots) + 1
      /\ \A i \in 1..Len(snapshots) : snapshots'[i] = snapshots[i]
      /\ snapshots'[Len(snapshots) + 1] = Saved(ps)
      /\ snapshots = <<>> <=> Len(snapshots) = 0
      /\ snapshots' # <<>>
  BY <1>1, AppendFrame, SomeFrame DEF FileInv, Maps
<1>. HIDE DEF Saved
<1>4. Maps'
  BY <1>1, <1>2, <1>3 DEF FileInv, Maps
<1>5. Len(snapshots) > 0 => Covered' = Covered
  BY <1>3 DEF Covered
<1>6. Len(snapshots) = 0 => Covered = {}
  BY <1>3 DEF Covered
<1>7. \A p \in Path \intersect ps : tree[p] # before[p] => p \in Covered \union exposed
  BY <1>1 DEF FileInv, TreeTrue, Orderly
<1>8. FramesTrue'
  <2>. SUFFICES ASSUME NEW i \in 1..Len(snapshots'), NEW p \in Path \intersect DOMAIN snapshots'[i],
                       snapshots'[i][p] # before[p]
                PROVE  p \in exposed \/ (i > 1 /\ p \in Covered')
    BY <1>1 DEF FramesTrue
  <2>1. CASE i \in 1..Len(snapshots)
    BY <1>3, <1>5, <2>1 DEF FileInv, FramesTrue
  <2>2. CASE i = Len(snapshots) + 1
    <3>1. p \in ps /\ tree[p] # before[p]
      BY <1>2, <1>3, <2>2
    <3>. QED
      BY <1>3, <1>5, <1>6, <1>7, <2>2, <3>1
  <2>. QED
    BY <1>3, <2>1, <2>2
<1>9. TreeTrue'
  BY <1>1, <1>3, <1>5, <1>6 DEF FileInv, TreeTrue
<1>. QED
  BY <1>1, <1>4, <1>8, <1>9 DEF FileInv, Orderly, AtRest

LEMMA WriteInv ==
  ASSUME FileInv, NEW new,
         Put(new) \/ Interrupt(new) \/ Crash(new)
  PROVE  FileInv'
<1>1. /\ status = "working" /\ tree' = With(new) /\ before' = before /\ spoiled' = spoiled
      /\ exposed' = exposed \union (DOMAIN new \ Covered)
      /\ \/ snapshots' = snapshots /\ status' \in {"working", "undoing"}
         \/ snapshots' = <<>> /\ status' = "crashed"
  BY DEF Put, Interrupt, Crash, CutShort
<1>2. tree' = [p \in Path |-> tree'[p]]
      /\ \A p \in Path \ DOMAIN new : tree'[p] = tree[p]
  BY <1>1, WithNew
<1>3. CASE snapshots' = snapshots /\ status' \in {"working", "undoing"}
  <2>1. Covered' = Covered
    BY <1>3 DEF Covered
  <2>2. TreeTrue'
    BY <1>1, <1>2, <2>1 DEF FileInv, TreeTrue
  <2>3. FramesTrue'
    BY <1>1, <1>3, <2>1 DEF FileInv, FramesTrue
  <2>. QED
    BY <1>1, <1>2, <1>3, <2>2, <2>3 DEF FileInv, Maps, Orderly, AtRest
<1>4. CASE snapshots' = <<>> /\ status' = "crashed"
  BY <1>1, <1>2, <1>4, EmptySeqOfFrames DEF FileInv, Maps, FramesTrue, TreeTrue, Orderly, AtRest
<1>. QED
  BY <1>1, <1>3, <1>4

LEMMA EndOfCommandInv == FileInv /\ (Fail \/ Finish \/ GiveUp) => FileInv'
<1>. SUFFICES ASSUME FileInv, Fail \/ Finish \/ GiveUp
              PROVE  FileInv'
  OBVIOUS
<1>1. /\ UNCHANGED <<tree, snapshots, before, exposed, spoiled>>
      /\ \/ status = "working" /\ status' = "undoing"
         \/ snapshots = <<>> /\ status \in {"working", "undoing"} /\ status' \in {"ok", "failed"}
  BY DEF Fail, Finish, GiveUp
<1>2. Covered' = Covered
  BY <1>1 DEF Covered
<1>3. Maps' /\ FramesTrue'
  BY <1>1, <1>2 DEF FileInv, Maps, FramesTrue
<1>4. TreeTrue' /\ Orderly'
  BY <1>1, <1>2 DEF FileInv, TreeTrue, Orderly, AtRest
<1>. QED
  BY <1>3, <1>4 DEF FileInv

(* What the innermost frame covers is known of its own name.               *)
LEMMA Dropped ==
  ASSUME FileInv, snapshots # <<>>,
         snapshots' = SubSeq(snapshots, 1, Len(snapshots) - 1)
  PROVE  /\ SeqOfFrames(snapshots') /\ Len(snapshots) \in Nat /\ Len(snapshots) > 0
         /\ Len(snapshots') = Len(snapshots) - 1
         /\ \A i \in 1..Len(snapshots') : snapshots'[i] = snapshots[i]
         /\ Len(snapshots) > 1 => Covered' = Covered
         /\ Len(snapshots) = 1 => Covered = DOMAIN Top /\ Covered' = {}
         /\ \A p \in Path \intersect DOMAIN Top :
              Top[p] # before[p] => p \in exposed \/ (Len(snapshots) > 1 /\ p \in Covered)
<1>1. /\ SeqOfFrames(snapshots') /\ Len(snapshots) \in Nat /\ Len(snapshots) > 0
      /\ Len(snapshots') = Len(snapshots) - 1
      /\ \A i \in 1..Len(snapshots') : snapshots'[i] = snapshots[i]
      /\ snapshots' = <<>> <=> Len(snapshots) = 1
  BY DropFrame DEF FileInv, Maps
<1>2. Len(snapshots) > 1 => Covered' = Covered
  BY <1>1 DEF Covered
<1>3. Len(snapshots) = 1 => Covered = DOMAIN Top /\ Covered' = {}
  BY <1>1 DEF Covered, Top
<1>4. \A p \in Path \intersect DOMAIN Top :
         Top[p] # before[p] => p \in exposed \/ (Len(snapshots) > 1 /\ p \in Covered)
  BY <1>1 DEF FileInv, FramesTrue, Top
<1>. QED
  BY <1>1, <1>2, <1>3, <1>4

LEMMA CommitInv == FileInv /\ Commit => FileInv'
<1>. SUFFICES ASSUME FileInv, Commit
              PROVE  FileInv'
  OBVIOUS
<1>1. /\ status = "working" /\ snapshots # <<>>
      /\ snapshots' = SubSeq(snapshots, 1, Len(snapshots) - 1)
      /\ exposed' = IF Len(snapshots) > 1 THEN exposed
                    ELSE exposed \union {p \in DOMAIN Top : tree[p] # before[p]}
      /\ UNCHANGED <<tree, status, before, spoiled, faults>>
  BY DEF Commit
<1>2. /\ SeqOfFrames(snapshots') /\ Len(snapshots) \in Nat /\ Len(snapshots) > 0
      /\ Len(snapshots') = Len(snapshots) - 1
      /\ \A i \in 1..Len(snapshots') : snapshots'[i] = snapshots[i]
      /\ Len(snapshots) > 1 => Covered' = Covered
      /\ Len(snapshots) = 1 => Covered = DOMAIN Top /\ Covered' = {}
  BY <1>1, Dropped
<1>3. Maps'
  BY <1>1, <1>2 DEF FileInv, Maps
<1>4. FramesTrue'
  BY <1>1, <1>2 DEF FileInv, FramesTrue
<1>5. TreeTrue'
  <2>1. CASE Len(snapshots) > 1
    BY <1>1, <1>2, <2>1 DEF FileInv, TreeTrue
  <2>2. CASE Len(snapshots) = 1
    BY <1>1, <1>2, <2>2 DEF FileInv, TreeTrue
  <2>. QED
    BY <1>2, <2>1, <2>2
<1>. QED
  BY <1>1, <1>3, <1>4, <1>5 DEF FileInv, Orderly, AtRest

LEMMA UndoInv ==
  ASSUME FileInv, NEW lost, NEW fails, Undo(lost, fails)
  PROVE  FileInv'
<1>. DEFINE put == [p \in DOMAIN Top |-> IF p \in DOMAIN lost THEN lost[p] ELSE Top[p]]
<1>1. /\ status = "undoing" /\ snapshots # <<>>
      /\ tree' = With(put) /\ before' = before /\ exposed' = exposed
      /\ spoiled' = (spoiled \ DOMAIN Top) \union DOMAIN lost
      /\ \/ status' = "undoing" /\ snapshots' = SubSeq(snapshots, 1, Len(snapshots) - 1)
         \/ status' = "crashed" /\ snapshots' = <<>>
  BY DEF Undo
<1>3. DOMAIN put = DOMAIN Top /\ \A p \in DOMAIN Top \ DOMAIN lost : put[p] = Top[p]
  OBVIOUS
<1>. HIDE DEF put
<1>4. /\ tree' = [p \in Path |-> tree'[p]]
      /\ \A p \in Path \ DOMAIN Top : tree'[p] = tree[p]
      /\ \A p \in (Path \intersect DOMAIN Top) \ DOMAIN lost : tree'[p] = Top[p]
  BY <1>1, <1>3, WithNew
<1>5. CASE status' = "crashed" /\ snapshots' = <<>>
  BY <1>1, <1>4, <1>5, EmptySeqOfFrames DEF FileInv, Maps, FramesTrue, TreeTrue, Orderly, AtRest
<1>6. CASE status' = "undoing" /\ snapshots' = SubSeq(snapshots, 1, Len(snapshots) - 1)
  <2>1. /\ SeqOfFrames(snapshots') /\ Len(snapshots) \in Nat /\ Len(snapshots) > 0
        /\ Len(snapshots') = Len(snapshots) - 1
        /\ \A i \in 1..Len(snapshots') : snapshots'[i] = snapshots[i]
        /\ Len(snapshots) > 1 => Covered' = Covered
        /\ Len(snapshots) = 1 => Covered = DOMAIN Top /\ Covered' = {}
        /\ \A p \in Path \intersect DOMAIN Top :
             Top[p] # before[p] => p \in exposed \/ (Len(snapshots) > 1 /\ p \in Covered)
    BY <1>1, <1>6, Dropped
  <2>2. Maps'
    BY <1>1, <1>4, <2>1 DEF FileInv, Maps
  <2>3. FramesTrue'
    BY <1>1, <2>1 DEF FileInv, FramesTrue
  <2>4. TreeTrue'
    <3>. SUFFICES ASSUME NEW p \in Path, tree'[p] # before[p]
                  PROVE  p \in Covered' \union exposed \union spoiled'
      BY <1>1 DEF TreeTrue
    <3>1. CASE p \in DOMAIN lost
      BY <1>1, <3>1
    <3>2. CASE p \in DOMAIN Top \ DOMAIN lost
      BY <1>4, <2>1, <3>2
    <3>3. CASE p \notin DOMAIN Top
      <4>1. p \in Covered \union exposed \union spoiled
        BY <1>1, <1>4, <3>3 DEF FileInv, TreeTrue
      <4>2. p \in Covered => p \in Covered'
        BY <2>1, <3>3
      <4>. QED
        BY <1>1, <3>3, <4>1, <4>2
    <3>. QED
      BY <3>1, <3>2, <3>3
  <2>. QED
    BY <1>6, <2>2, <2>3, <2>4 DEF FileInv, Orderly, AtRest
<1>. QED
  BY <1>1, <1>5, <1>6

LEMMA OutsideInv ==
  ASSUME FileInv, NEW p \in Path, NEW content, Outside(p, content)
  PROVE  FileInv'
<1>. DEFINE Changed(f) == [f EXCEPT ![p] = content]
            frame(i) == IF p \in DOMAIN snapshots[i] THEN Changed(snapshots[i])
                        ELSE snapshots[i]
<1>1. /\ tree' = Changed(tree) /\ before' = Changed(before)
      /\ snapshots' = [i \in DOMAIN snapshots |-> frame(i)]
      /\ spoiled' = spoiled \ {p} /\ status' = status /\ exposed' = exposed
  BY DEF Outside
<1>2. /\ tree' = [q \in Path |-> tree'[q]] /\ before' = [q \in Path |-> before'[q]]
      /\ tree'[p] = before'[p]
      /\ \A q \in Path \ {p} : tree'[q] = tree[q] /\ before'[q] = before[q]
  BY <1>1 DEF FileInv, Maps
<1>3. before'[p] = content
  BY <1>1 DEF FileInv, Maps
<1>4. Len(snapshots) \in Nat /\ DOMAIN snapshots = 1..Len(snapshots)
  BY LenProperties DEF FileInv, Maps, SeqOfFrames
<1>5. SeqOfFrames(snapshots') /\ Len(snapshots') = Len(snapshots)
  <2>. DEFINE S == {frame(i) : i \in 1..Len(snapshots)}
  <2>1. snapshots' = [i \in 1..Len(snapshots) |-> frame(i)]
    BY <1>1, <1>4
  <2>2. snapshots' \in [1..Len(snapshots) -> S]
    BY <2>1
  <2>. HIDE DEF S, frame
  <2>3. snapshots' \in Seq(S)
    BY <1>4, <2>2
  <2>. QED
    BY <1>4, <2>2, <2>3, LenProperties DEF SeqOfFrames
<1>6. \A i \in 1..Len(snapshots) :
        /\ DOMAIN snapshots'[i] = DOMAIN snapshots[i]
        /\ p \in DOMAIN snapshots[i] => snapshots'[i][p] = content
        /\ \A q \in DOMAIN snapshots[i] \ {p} : snapshots'[i][q] = snapshots[i][q]
  <2>. SUFFICES ASSUME NEW i \in 1..Len(snapshots)
                PROVE  /\ DOMAIN snapshots'[i] = DOMAIN snapshots[i]
                       /\ p \in DOMAIN snapshots[i] => snapshots'[i][p] = content
                       /\ \A q \in DOMAIN snapshots[i] \ {p} : snapshots'[i][q] = snapshots[i][q]
    OBVIOUS
  <2>1. snapshots'[i] = frame(i)
    BY <1>1, <1>4
  <2>2. CASE p \in DOMAIN snapshots[i]
    <3>1. snapshots'[i] = Changed(snapshots[i])
      BY <2>1, <2>2
    <3>. QED
      BY <2>2, <3>1
  <2>3. CASE p \notin DOMAIN snapshots[i]
    BY <2>1, <2>3
  <2>. QED
    BY <2>2, <2>3
<1>7. snapshots' = <<>> <=> snapshots = <<>>
  BY <1>5, SomeFrame DEF FileInv, Maps
<1>8. Covered' = Covered
  <2>1. CASE snapshots = <<>>
    BY <1>7, <2>1 DEF Covered
  <2>2. CASE snapshots # <<>>
    <3>1. 1 \in 1..Len(snapshots)
      BY <1>4, <2>2, SomeFrame DEF FileInv, Maps
    <3>. QED
      BY <1>6, <1>7, <2>2, <3>1 DEF Covered
  <2>. QED
    BY <2>1, <2>2
<1>9. Maps'
  BY <1>2, <1>5, <1>6 DEF FileInv, Maps
<1>10. FramesTrue'
  <2>. SUFFICES ASSUME NEW i \in 1..Len(snapshots),
                       NEW q \in Path \intersect DOMAIN snapshots[i],
                       snapshots'[i][q] # before'[q]
                PROVE  q \in exposed \/ (i > 1 /\ q \in Covered)
    BY <1>1, <1>5, <1>6, <1>8 DEF FramesTrue
  <2>1. q # p /\ q \in Path
    BY <1>3, <1>6 DEF FileInv, Maps
  <2>2. snapshots'[i][q] = snapshots[i][q] /\ before'[q] = before[q]
    BY <1>2, <1>6, <2>1
  <2>. QED
    BY <2>2 DEF FileInv, FramesTrue
<1>11. TreeTrue'
  BY <1>1, <1>2, <1>8 DEF FileInv, TreeTrue
<1>. QED
  BY <1>1, <1>7, <1>9, <1>10, <1>11 DEF FileInv, Orderly, AtRest

-------------------------------------------------------------------------------
(* FileInv is what a command keeps, whatever it writes, saves and puts     *)
(* back, and whoever else changes a file.                                  *)
LEMMA FileStep == FileInv /\ [FileNext]_fileVars => FileInv'
<1>. SUFFICES ASSUME FileInv, [FileNext]_fileVars
              PROVE  FileInv'
  OBVIOUS
<1>1. CASE Begin(<<>>)
  BY <1>1, BeginInv
<1>2. ASSUME NEW ps, Begin(<<Saved(ps)>>) \/ TakeSnapshot(ps)
      PROVE  FileInv'
  BY <1>2, BeginInv, TakeSnapshotInv
<1>3. ASSUME NEW new, Put(new) \/ Interrupt(new) \/ Crash(new)
      PROVE  FileInv'
  BY <1>3, WriteInv
<1>4. ASSUME NEW lost, NEW fails, Undo(lost, fails)
      PROVE  FileInv'
  BY <1>4, UndoInv
<1>5. ASSUME NEW p \in Path, NEW content, Outside(p, content)
      PROVE  FileInv'
  BY <1>5, OutsideInv
<1>6. CASE Fail \/ Finish \/ GiveUp
  BY <1>6, EndOfCommandInv
<1>7. CASE Commit
  BY <1>7, CommitInv
<1>8. CASE UNCHANGED fileVars
  BY <1>8 DEF fileVars, FileInv, Maps, FramesTrue, TreeTrue, Orderly, AtRest, Covered
<1>. QED
  BY <1>1, <1>2, <1>3, <1>4, <1>5, <1>6, <1>7, <1>8 DEF FileNext

(* A command that failed has changed nothing but what it wrote outside its *)
(* outermost snapshot and what its rollback did not put back.              *)
THEOREM CommandsUndone == FileSpec => []FailureUndone
<1>1. FileInv => FailureUndone
  BY DEF FileInv, TreeTrue, Orderly, AtRest, FailureUndone, Covered
<1>. QED
  BY <1>1, InitInv, FileStep, PTL DEF FileSpec

-------------------------------------------------------------------------------
(* The commands of Project are such commands.                              *)

LEMMA DoIsFile ==
  ASSUME NEW step, NEW possible, NEW new, NEW inPlace, Do(step, possible, new, inPlace)
  PROVE  FileNext
BY DEF Do, FileNext

LEMMA StartIsFile ==
  ASSUME NEW name, NEW manifest, NEW taken, NEW todo, Start(name, manifest, taken, todo),
         taken = <<>> \/ \E ps : taken = <<Saved(ps)>>
  PROVE  FileNext
BY DEF Start, FileNext

LEMMA EnterIsFile ==
  ASSUME NEW step, NEW manifest, NEW ps, NEW todo, Enter(step, manifest, ps, todo)
  PROVE  FileNext
BY DEF Enter, FileNext

LEMMA MayFailIsFile ==
  ASSUME NEW step, MayFail(step)
  PROVE  FileNext
BY DEF MayFail, FileNext

(* Each command starts with no snapshot or with one of the tree.           *)
LEMMA CommandIsFile == Command => FileNext
<1>1. New \/ RunGenerators \/ APIGenerate \/ PBGenerate => FileNext
  BY StartIsFile DEF New, RunGenerators, APIGenerate, PBGenerate
<1>2. ASSUME NEW o \in Operation, AddOperation(o) PROVE FileNext
  BY <1>2, StartIsFile DEF AddOperation
<1>3. ASSUME NEW f \in ProtoFile, AddService(f) \/ AddMethod(f) PROVE FileNext
  BY <1>3, StartIsFile DEF AddService, AddMethod
<1>4. ASSUME NEW s \in Service, NEW h \in Handler, BindServer(s, h) PROVE FileNext
  BY <1>4, StartIsFile DEF BindServer
<1>5. ASSUME NEW s \in Service, UnbindServer(s) PROVE FileNext
  BY <1>5, StartIsFile DEF UnbindServer
<1>6. ASSUME NEW c \in Client, NEW s \in Service, BindClient(c, s) PROVE FileNext
  BY <1>6, StartIsFile DEF BindClient
<1>7. ASSUME NEW c \in Client, UnbindClient(c) PROVE FileNext
  BY <1>7, StartIsFile DEF UnbindClient
<1>. QED
  BY <1>1, <1>2, <1>3, <1>4, <1>5, <1>6, <1>7 DEF Command

LEMMA BindingStepIsFile == BindingStep => FileNext \/ UNCHANGED fileVars
<1>1. ASSUME NEW ss \in SUBSET Service, AddRequirement(ss) \/ ImplementServices(ss)
      PROVE  FileNext \/ UNCHANGED fileVars
  BY <1>1, DoIsFile DEF AddRequirement, ImplementServices
<1>2. WriteServer \/ WriteClients \/ SaveManifest => FileNext
  BY DoIsFile DEF WriteServer, WriteClients, SaveManifest
<1>3. Tidy \/ Compile => FileNext
  BY DoIsFile, MayFailIsFile DEF Tidy, Compile
<1>4. ASSUME NEW s \in Service, CreateServerHandler(s) \/ CreateServerStubs(s) PROVE FileNext
  BY <1>4, DoIsFile DEF CreateServerHandler, CreateServerStubs
<1>5. ASSUME NEW c \in Client, AddClientConfig(c) \/ RemoveClientConfig(c) PROVE FileNext
  BY <1>5, DoIsFile DEF AddClientConfig, RemoveClientConfig
<1>. QED
  BY <1>1, <1>2, <1>3, <1>4, <1>5 DEF BindingStep

LEMMA ContractStepIsFile == ContractStep => FileNext
<1>1. ASSUME NEW o \in Operation, WriteHTTPStub(o) PROVE FileNext
  BY <1>1, DoIsFile DEF WriteHTTPStub
<1>2. ASSUME NEW f \in ProtoFile, WriteProto(f) PROVE FileNext
  BY <1>2, DoIsFile DEF WriteProto
<1>3. WriteContract \/ WriteHTTP \/ Discover \/ WriteTransport \/ CreateServiceStubs => FileNext
  BY DoIsFile DEF WriteContract, WriteHTTP, Discover, WriteTransport, CreateServiceStubs
<1>4. Buf \/ Verify => FileNext
  BY DoIsFile, MayFailIsFile DEF Buf, Verify
<1>5. Prune => FileNext
  BY DEF Prune, FileNext
<1>. QED
  BY <1>1, <1>2, <1>3, <1>4, <1>5 DEF ContractStep

LEMMA NestedIsFile == NestedGenerator => FileNext
<1>1. GenerateHTTP \/ GeneratePB => FileNext
  BY EnterIsFile DEF GenerateHTTP, GeneratePB
<1>2. MayFail(<<"http">>) \/ MayFail(<<"pb">>) \/ PrintFails \/ RefuseBindings => FileNext
  BY MayFailIsFile DEF RefuseBindings, PrintFails
<1>3. GenerateBindings => FileNext
  BY DoIsFile, EnterIsFile DEF GenerateBindings
<1>. QED
  BY <1>1, <1>2, <1>3 DEF NestedGenerator

LEMMA StepIsFile == Step => FileNext \/ UNCHANGED fileVars
<1>1. ClearTarget => FileNext
  BY DoIsFile DEF ClearTarget
<1>2. PublishProject \/ CommitStep \/ End => FileNext
  BY DEF PublishProject, CommitStep, End, FileNext
<1>3. Restore => FileNext
  <2>1. ASSUME NEW lost, NEW changed, Undo(lost, changed # {})
        PROVE  FileNext
    BY <2>1 DEF FileNext
  <2>. QED
    BY <2>1 DEF Restore, RollBack
<1>. QED
  BY <1>1, <1>2, <1>3, BindingStepIsFile, NestedIsFile, ContractStepIsFile DEF Step

LEMMA EnvironmentIsFile == Environment => FileNext \/ UNCHANGED fileVars
<1>1. ASSUME Edit PROVE FileNext
  <2>1. ServiceFile \union {Models} \union {Proto(f) : f \in ProtoFile} \subseteq Path
    <3>1. ServiceFile \subseteq Path
      BY DEF ServiceFile
    <3>2. HttpPaths \subseteq Path /\ RpcPaths \subseteq Path
      BY PathAssumption DEF ProjectPath
    <3>3. Models \in HttpPaths /\ {Proto(f) : f \in ProtoFile} \subseteq RpcPaths
      BY DEF HttpPaths, RpcPaths
    <3>. QED
      BY <3>1, <3>2, <3>3
  <2>2. PICK p \in ServiceFile \union {Models} \union {Proto(f) : f \in ProtoFile} :
          Outside(p, Absent) \/ \E content : Outside(p, content)
    BY <1>1 DEF Edit
  <2>. QED
    BY <2>1, <2>2 DEF FileNext
<1>2. Occupy => FileNext
  BY PathAssumption DEF Occupy, ProjectPath, FileNext
<1>3. ASSUME NEW s \in Service, NEW ms \in SUBSET Method, Publish(s, ms)
      PROVE  UNCHANGED fileVars
  BY <1>3 DEF Publish
<1>. QED
  BY <1>1, <1>2, <1>3 DEF Environment

(* Every command of Project is a transaction over its files, and so one    *)
(* that failed has changed nothing but what no snapshot of its own holds   *)
(* and what could not be put back.                                         *)
THEOREM ProjectImplementsTransactions == Spec => FileSpec
<1>1. Init => FileInit
  BY DEF Init
<1>2. [Next]_vars => [FileNext]_fileVars
  BY CommandIsFile, StepIsFile, EnvironmentIsFile DEF Next, vars
<1>. QED
  BY <1>1, <1>2, PTL DEF Spec, FileSpec

THEOREM ProjectCommandsUndone == Spec => []FailureUndone
BY ProjectImplementsTransactions, CommandsUndone, PTL

===============================================================================
