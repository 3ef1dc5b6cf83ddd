--------------------------- MODULE BlockValidator ---------------------------
(***************************************************************************)
(* core.BlockValidator with its deep-diagnostics files, and the hack tools *)
(* that share the working directory with it.                               *)
(*                                                                         *)
(* The node (one process at a time, restarted at will):                    *)
(*   NewBlockValidator reads "./" and fills dblks from the root_N.txt and  *)
(*   right_N.txt files there; ValidateBody and ValidateState run for each  *)
(*   block inserted; on a state-root mismatch ValidateState creates        *)
(*   root_N.txt and prints the tries into it, and on a match for a block  *)
(*   with dblks[N] = true it does the same into right_N.txt.               *)
(* The hack tool (one invocation at a time, beside the node):              *)
(*   execToBlock(N) and extractTrie(N) print the canonical block N's tries *)
(*   into right_N.txt; invTree(root, right, diff, N) loads root_N.txt and  *)
(*   right_N.txt and writes their diff.                                    *)
(*                                                                         *)
(* A file is absent, partial (created, the print not finished) or          *)
(* complete, and snapshots the tries of one block, named by its hash.      *)
(***************************************************************************)
EXTENDS Naturals

CONSTANTS
    Blocks,         \* block numbers a file may be named after
    Hashes,         \* the blocks (by hash) the node may be given at a number
    CanonicalHash,  \* the block the hack tool's chain data has at every number
    NoHash,         \* fileHash of an absent file
    NoHistory,      \* bc.noHistory
    MaxRuns         \* the node starts a run may have

ASSUME ValidatorConstantsAssumption ==
    /\ CanonicalHash \in Hashes
    /\ NoHash \notin Hashes
    /\ NoHistory \in BOOLEAN
    /\ MaxRuns \in Nat

Kinds == {"root", "right"}
Files == Kinds \X Blocks
NoFile == <<"none", "none">>
Status == {"absent", "partial", "complete"}

VARIABLES
    files,          \* [Files -> Status]
    fileHash,       \* the block each file snapshots
    diff,           \* invTree's output, for the numbers it was run on
    nodeUp, runs,   \* the node process, and how often it was started
    dblks,          \* validator.dblks: a function from a subset of Blocks
    startRight,     \* ghost: the right files present when the node started
    nodePrinting,   \* the file ValidateState is printing into, or NoFile
    toolPrinting    \* the file the hack tool is printing into, or NoFile

vars == <<files, fileHash, diff, nodeUp, runs, dblks, startRight,
          nodePrinting, toolPrinting>>

Present(kind) == {n \in Blocks : files[<<kind, n>>] # "absent"}

-----------------------------------------------------------------------------
(***************************************************************************)
(* NewBlockValidator: ReadDir returns the entries sorted by name, so every *)
(* right_ file ("ri" < "ro") comes before every root_ file.  A right_ file *)
(* sets dblks[N] to false; a root_ file sets it to true only when N has no *)
(* entry yet.                                                              *)
(***************************************************************************)
\* Mutant: the root_ entry is written whatever dblks already holds.
NewBlockValidatorRootOverrides ==
    [n \in Present("right") \cup Present("root") |-> n \in Present("root")]

NewBlockValidator ==
    LET afterRight == [n \in Present("right") |-> FALSE]
    IN  [n \in DOMAIN afterRight \cup Present("root") |->
            IF n \in DOMAIN afterRight THEN afterRight[n] ELSE TRUE]

(***************************************************************************)
(* ValidateBody's checks, in the order of its early returns.  c holds the  *)
(* outcome of each comparison: parent known, VerifyUncles, the uncle hash, *)
(* the transaction root, parent state present, parent block present.       *)
(***************************************************************************)
BodyChecks == [linkable : BOOLEAN, uncles : BOOLEAN, uncleHash : BOOLEAN,
               txHash : BOOLEAN, parentState : BOOLEAN, parentBlock : BOOLEAN]

ValidateBody(c) ==
    IF ~NoHistory /\ ~c.linkable THEN "ErrUnknownAncestor"
    ELSE IF ~c.uncles THEN "ErrUncles"
    ELSE IF ~c.uncleHash THEN "ErrUncleHash"
    ELSE IF ~c.txHash THEN "ErrTxHash"
    ELSE IF NoHistory THEN "nil"
    ELSE IF c.parentState THEN "nil"
    ELSE IF c.parentBlock THEN "ErrPrunedAncestor"
    ELSE "ErrUnknownAncestor"

(* ValidateState's checks before the state root: gas used, bloom, receipts. *)
StateChecks == [gasUsed : BOOLEAN, bloom : BOOLEAN, receiptHash : BOOLEAN]

ValidateStatePrefix(c) ==
    IF ~c.gasUsed THEN "ErrGasUsed"
    ELSE IF ~c.bloom THEN "ErrBloom"
    ELSE IF ~c.receiptHash THEN "ErrReceiptHash"
    ELSE "nil"

-----------------------------------------------------------------------------
Init ==
    /\ files = [f \in Files |-> "absent"]
    /\ fileHash = [f \in Files |-> NoHash]
    /\ diff = [n \in {} |-> [complete |-> TRUE, sameBlock |-> TRUE]]
    /\ nodeUp = FALSE
    /\ runs = 0
    /\ dblks = [n \in {} |-> FALSE]
    /\ startRight = {}
    /\ nodePrinting = NoFile
    /\ toolPrinting = NoFile

(* The node starts: NewBlockValidator reads the directory. *)
Start ==
    /\ ~nodeUp
    /\ runs < MaxRuns
    /\ dblks' = NewBlockValidator
    /\ startRight' = Present("right")
    /\ nodeUp' = TRUE
    /\ runs' = runs + 1
    /\ UNCHANGED <<files, fileHash, diff, nodePrinting, toolPrinting>>

(***************************************************************************)
(* Block n with hash h is inserted: ValidateBody, execution, ValidateState. *)
(* Every early return leaves the files as they are (a stutter); so does a  *)
(* root match for a block not watched, and a failed os.Create.  On a root *)
(* mismatch os.Create truncates root_n.txt and PrintTrie starts; on a      *)
(* match with dblks[n] = true the same happens to right_n.txt.             *)
(***************************************************************************)
Create(f, h) ==
    /\ files' = [files EXCEPT ![f] = "partial"]
    /\ fileHash' = [fileHash EXCEPT ![f] = h]

ValidateBlock(n, h, body, st, rootOk) ==
    /\ nodeUp
    /\ nodePrinting = NoFile
    /\ ValidateBody(body) = "nil"
    /\ ValidateStatePrefix(st) = "nil"
    /\ \/ /\ ~rootOk
          /\ Create(<<"root", n>>, h)
          /\ nodePrinting' = <<"root", n>>
       \/ /\ rootOk
          /\ n \in DOMAIN dblks
          /\ dblks[n]
          /\ Create(<<"right", n>>, h)
          /\ nodePrinting' = <<"right", n>>
    /\ UNCHANGED <<diff, nodeUp, runs, dblks, startRight, toolPrinting>>

(* PrintTrie returns and the deferred f.Close runs. *)
FinishNodePrint ==
    /\ nodePrinting # NoFile
    /\ files' = [files EXCEPT ![nodePrinting] = "complete"]
    /\ nodePrinting' = NoFile
    /\ UNCHANGED <<fileHash, diff, nodeUp, runs, dblks, startRight, toolPrinting>>

(* The node stops (killed, crashed, or shut down), whatever it was doing. *)
NodeStop ==
    /\ nodeUp
    /\ nodeUp' = FALSE
    /\ nodePrinting' = NoFile
    /\ dblks' = [n \in {} |-> FALSE]
    /\ UNCHANGED <<files, fileHash, diff, runs, startRight, toolPrinting>>

(***************************************************************************)
(* execToBlock(n) (after replaying blocks 1..n from the chain data) and    *)
(* extractTrie(n): os.Create("right_n.txt") then PrintTrie.                *)
(***************************************************************************)
PrintCanonicalRight(n) ==
    /\ toolPrinting = NoFile
    /\ Create(<<"right", n>>, CanonicalHash)
    /\ toolPrinting' = <<"right", n>>
    /\ UNCHANGED <<diff, nodeUp, runs, dblks, startRight, nodePrinting>>

ExecToBlock(n) == PrintCanonicalRight(n)

ExtractTrie(n) == PrintCanonicalRight(n)

FinishToolPrint ==
    /\ toolPrinting # NoFile
    /\ files' = [files EXCEPT ![toolPrinting] = "complete"]
    /\ toolPrinting' = NoFile
    /\ UNCHANGED <<fileHash, diff, nodeUp, runs, dblks, startRight, nodePrinting>>

(* The tool is interrupted while printing. *)
ToolStop ==
    /\ toolPrinting # NoFile
    /\ toolPrinting' = NoFile
    /\ UNCHANGED <<files, fileHash, diff, nodeUp, runs, dblks, startRight, nodePrinting>>

(***************************************************************************)
(* invTree("root", "right", "diff", n): readTrie panics (check(err)) when  *)
(* a file is missing; otherwise both are loaded and the diff is written.   *)
(* The diff records whether its inputs were complete and of one block.     *)
(***************************************************************************)
InvTree(n) ==
    /\ toolPrinting = NoFile
    /\ n \in Present("root") \cap Present("right")
    /\ LET out == [complete |-> files[<<"root", n>>] = "complete"
                                /\ files[<<"right", n>>] = "complete",
                   sameBlock |-> fileHash[<<"root", n>>] = fileHash[<<"right", n>>]]
       IN  diff' = [m \in DOMAIN diff \cup {n} |-> IF m = n THEN out ELSE diff[m]]
    /\ UNCHANGED <<files, fileHash, nodeUp, runs, dblks, startRight, nodePrinting, toolPrinting>>

Next ==
    \/ Start
    \/ \E n \in Blocks, h \in Hashes, b \in BodyChecks, s \in StateChecks, ok \in BOOLEAN :
          ValidateBlock(n, h, b, s, ok)
    \/ FinishNodePrint
    \/ NodeStop
    \/ \E n \in Blocks : ExecToBlock(n) \/ ExtractTrie(n) \/ InvTree(n)
    \/ FinishToolPrint
    \/ ToolStop

Spec == Init /\ [][Next]_vars

-----------------------------------------------------------------------------
TypeOK ==
    /\ files \in [Files -> Status]
    /\ fileHash \in [Files -> Hashes \cup {NoHash}]
    /\ DOMAIN diff \subseteq Blocks
    /\ \A n \in DOMAIN diff : diff[n] \in [complete : BOOLEAN, sameBlock : BOOLEAN]
    /\ nodeUp \in BOOLEAN
    /\ runs \in 0..MaxRuns
    /\ DOMAIN dblks \subseteq Blocks /\ \A n \in DOMAIN dblks : dblks[n] \in BOOLEAN
    /\ startRight \subseteq Blocks
    /\ nodePrinting \in Files \cup {NoFile}
    /\ toolPrinting \in Files \cup {NoFile}

(***************************************************************************)
(* A right snapshot that was in the directory when the node started is     *)
(* never overwritten by that run: once right_N.txt exists (written by an   *)
(* earlier run, or by execToBlock), block N stops being watched, even      *)
(* though root_N.txt is still there.  This takes the ReadDir order and the *)
(* "!ok" guard of NewBlockValidator together.                              *)
(***************************************************************************)
NodeNeverOverwritesRight ==
    [][\A n \in startRight :
          nodeUp /\ nodePrinting = NoFile => nodePrinting' # <<"right", n>>]_vars

=============================================================================
