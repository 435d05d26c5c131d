--------------------------- MODULE FileTransaction ---------------------------
(***************************************************************************)
(* What the generators do to the files of a project, whatever the files    *)
(* are: a command saves the files it is going to write, writes them one by *)
(* one, and puts the saved ones back when a step fails.  mutateFiles and   *)
(* restoreFiles of rpcbinding/binding.go, snapshotGeneratorState and       *)
(* restore of command/development.go, commitGeneratedOutputs of            *)
(* openapi/generate.go and outputSnapshot of protobuf/generate.go are four *)
(* instances of it; `jgo generate` nests the others in its own.            *)
(***************************************************************************)
EXTENDS Naturals, Sequences

CONSTANTS
  Path,      \* the files a command may write
  Torn,      \* what a write that was cut short leaves
  MaxFaults  \* bound on I/O errors and crashes

ASSUME FaultsAssumption == MaxFaults \in Nat

VARIABLES
  tree,       \* the content of each path
  snapshots,  \* what was saved, the outermost snapshot first
  status,     \* how far the command is, or how the last one ended
  before,     \* the tree the command found
  exposed,    \* paths it wrote that the outermost snapshot does not hold
  spoiled,    \* paths a rollback did not put back
  faults      \* I/O errors and crashes so far

fileVars == <<tree, snapshots, status, before, exposed, spoiled, faults>>

AtRest == status \in {"ok", "failed", "crashed"}

FileInit ==
  /\ tree = [p \in Path |-> tree[p]]
  /\ snapshots = <<>>
  /\ status = "ok"
  /\ before = tree
  /\ exposed = {}
  /\ spoiled = {}
  /\ faults = 0

(* The tree with new content for some paths, and the content of some now.  *)
With(new) == [p \in Path |-> IF p \in DOMAIN new THEN new[p] ELSE tree[p]]
Saved(ps) == [p \in ps |-> tree[p]]

Top     == snapshots[Len(snapshots)]
Covered == IF snapshots = <<>> THEN {} ELSE DOMAIN snapshots[1]

-------------------------------------------------------------------------------
(* A command starts, with or without a snapshot of its own, and may take a *)
(* further one.                                                            *)
Begin(taken) ==
  /\ AtRest
  /\ status' = "working"
  /\ before' = tree
  /\ snapshots' = taken
  /\ exposed' = {}
  /\ spoiled' = {}
  /\ UNCHANGED <<tree, faults>>

TakeSnapshot(ps) ==
  /\ status = "working"
  /\ snapshots' = Append(snapshots, Saved(ps))
  /\ UNCHANGED <<tree, status, before, exposed, spoiled, faults>>

(* A step writes its files.                                                *)
Put(new) ==
  /\ status = "working"
  /\ tree' = With(new)
  /\ exposed' = exposed \union (DOMAIN new \ Covered)
  /\ UNCHANGED <<snapshots, status, before, spoiled, faults>>

(* A step fails without touching a file.                                   *)
Fail ==
  /\ status = "working"
  /\ status' = "undoing"
  /\ UNCHANGED <<tree, snapshots, before, exposed, spoiled, faults>>

(* A step fails with these files written, which the command then handles,  *)
(* or the process dies with them written, and nothing is put back.         *)
CutShort(new) ==
  /\ status = "working"
  /\ faults < MaxFaults
  /\ faults' = faults + 1
  /\ tree' = With(new)
  /\ exposed' = exposed \union (DOMAIN new \ Covered)
  /\ UNCHANGED <<before, spoiled>>

Interrupt(new) == CutShort(new) /\ status' = "undoing" /\ UNCHANGED snapshots
Crash(new)     == CutShort(new) /\ status' = "crashed" /\ snapshots' = <<>>

(* What a snapshot guards is done: it is dropped.  With the outermost one  *)
(* goes the way back for everything it held.                               *)
Commit ==
  /\ status = "working"
  /\ snapshots # <<>>
  /\ snapshots' = SubSeq(snapshots, 1, Len(snapshots) - 1)
  /\ exposed' = IF Len(snapshots) > 1 THEN exposed
                ELSE exposed \union {p \in DOMAIN Top : tree[p] # before[p]}
  /\ UNCHANGED <<tree, status, before, spoiled, faults>>

Finish ==
  /\ status = "working"
  /\ snapshots = <<>>
  /\ status' = "ok"
  /\ UNCHANGED <<tree, snapshots, before, exposed, spoiled, faults>>

(* The innermost snapshot is put back, but for the paths of lost, which    *)
(* are left with the content given there: because putting them back        *)
(* fails, because the process dies in the middle, or because the rollback  *)
(* does not know them for files of its own.                                *)
Undo(lost, fails) ==
  /\ status = "undoing"
  /\ snapshots # <<>>
  /\ tree' = With([p \in DOMAIN Top |-> IF p \in DOMAIN lost THEN lost[p] ELSE Top[p]])
  /\ spoiled' = (spoiled \ DOMAIN Top) \union DOMAIN lost
  /\ IF fails THEN faults < MaxFaults /\ faults' = faults + 1 ELSE UNCHANGED faults
  /\ \/ UNCHANGED status /\ snapshots' = SubSeq(snapshots, 1, Len(snapshots) - 1)
     \/ fails /\ status' = "crashed" /\ snapshots' = <<>>
  /\ UNCHANGED <<before, exposed>>

GiveUp ==
  /\ status = "undoing"
  /\ snapshots = <<>>
  /\ status' = "failed"
  /\ UNCHANGED <<tree, snapshots, before, exposed, spoiled, faults>>

(* Somebody else changes a file, and no snapshot of it will undo that.     *)
Outside(p, content) ==
  LET Changed(f) == [f EXCEPT ![p] = content]
  IN /\ tree' = Changed(tree)
     /\ before' = Changed(before)
     /\ snapshots' = [i \in DOMAIN snapshots |->
                        IF p \in DOMAIN snapshots[i] THEN Changed(snapshots[i])
                        ELSE snapshots[i]]
     /\ spoiled' = spoiled \ {p}
     /\ UNCHANGED <<status, exposed, faults>>

(* Any command at all: which files a step saves or writes, and what it     *)
(* writes, is open.                                                        *)
FileNext ==
  \/ Begin(<<>>)
  \/ \E ps : Begin(<<Saved(ps)>>) \/ TakeSnapshot(ps)
  \/ \E new : Put(new) \/ Interrupt(new) \/ Crash(new)
  \/ \E lost : \E fails \in BOOLEAN : Undo(lost, fails)
  \/ \E p \in Path : \E content : Outside(p, content)
  \/ Fail \/ Commit \/ Finish \/ GiveUp

FileSpec == FileInit /\ [][FileNext]_fileVars

(* A command that failed has changed nothing but what it wrote outside its *)
(* outermost snapshot and what its rollback did not put back.              *)
FailureUndone ==
  status = "failed" => \A p \in Path : tree[p] # before[p] => p \in exposed \union spoiled

===============================================================================
