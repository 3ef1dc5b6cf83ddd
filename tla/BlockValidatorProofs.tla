------------------------- MODULE BlockValidatorProofs -------------------------
(***************************************************************************)
(* Proof that a node run never reprints a right_N.txt snapshot that was in *)
(* the directory when it started, for every set of block numbers, hashes   *)
(* and number of restarts, whatever the hack tools do beside it.           *)
(***************************************************************************)
EXTENDS BlockValidator, TLAPS

(***************************************************************************)
(* The invariant behind it: while the node runs, every block whose right  *)
(* file it found at start is in dblks, unwatched.  NewBlockValidator       *)
(* establishes it, since its right_ entries come first and a later root_   *)
(* entry does not override them, and nothing but a restart touches dblks  *)
(* or startRight.                                                          *)
(***************************************************************************)
StartRightUnwatched ==
    nodeUp => \A n \in startRight : n \in DOMAIN dblks /\ dblks[n] = FALSE

(* The initial state satisfies it: the node is down. *)
LEMMA UnwatchedInit == Init => StartRightUnwatched
BY DEF Init, StartRightUnwatched

(***************************************************************************)
(* NewBlockValidator maps every block with a right file to FALSE.          *)
(***************************************************************************)
LEMMA NewValidatorUnwatchesRight ==
    \A n \in Present("right") :
        n \in DOMAIN NewBlockValidator /\ NewBlockValidator[n] = FALSE
BY DEF NewBlockValidator

(***************************************************************************)
(* Every step keeps it: Start sets dblks and startRight together, NodeStop *)
(* stops the node, and no other step touches dblks, startRight or nodeUp.  *)
(***************************************************************************)
LEMMA UnwatchedStep == StartRightUnwatched /\ [Next]_vars => StartRightUnwatched'
<1> SUFFICES ASSUME StartRightUnwatched, [Next]_vars PROVE StartRightUnwatched'
    OBVIOUS
<1>1. CASE Start
    BY <1>1, NewValidatorUnwatchesRight DEF Start, StartRightUnwatched
<1>2. CASE \E n \in Blocks, h \in Hashes, b \in BodyChecks, s \in StateChecks, ok \in BOOLEAN :
              ValidateBlock(n, h, b, s, ok)
    BY <1>2 DEF ValidateBlock, StartRightUnwatched
<1>3. CASE FinishNodePrint
    BY <1>3 DEF FinishNodePrint, StartRightUnwatched
<1>4. CASE NodeStop
    BY <1>4 DEF NodeStop, StartRightUnwatched
<1>5. CASE \E n \in Blocks : ExecToBlock(n) \/ ExtractTrie(n) \/ InvTree(n)
    BY <1>5 DEF ExecToBlock, ExtractTrie, PrintCanonicalRight, InvTree, StartRightUnwatched
<1>6. CASE FinishToolPrint
    BY <1>6 DEF FinishToolPrint, StartRightUnwatched
<1>7. CASE ToolStop
    BY <1>7 DEF ToolStop, StartRightUnwatched
<1>8. CASE UNCHANGED vars
    BY <1>8 DEF vars, StartRightUnwatched
<1>9. QED
    BY <1>1, <1>2, <1>3, <1>4, <1>5, <1>6, <1>7, <1>8 DEF Next

(* The step predicate of NodeNeverOverwritesRight. *)
NoRightReprint ==
    \A n \in startRight :
        nodeUp /\ nodePrinting = NoFile => nodePrinting' # <<"right", n>>

(***************************************************************************)
(* Only ValidateBlock starts a node print, and it prints into right_N.txt  *)
(* only for a block with dblks[N] = TRUE, which the invariant excludes for *)
(* the blocks of startRight; every other step leaves nodePrinting as it    *)
(* was or resets it.                                                       *)
(***************************************************************************)
LEMMA NoRightReprintStep == StartRightUnwatched /\ [Next]_vars => [NoRightReprint]_vars
<1> SUFFICES ASSUME StartRightUnwatched, [Next]_vars PROVE [NoRightReprint]_vars
    OBVIOUS
<1>1. CASE \E n \in Blocks, h \in Hashes, b \in BodyChecks, s \in StateChecks, ok \in BOOLEAN :
              ValidateBlock(n, h, b, s, ok)
    <2>1. PICK m \in Blocks, h \in Hashes, b \in BodyChecks, s \in StateChecks, ok \in BOOLEAN :
              ValidateBlock(m, h, b, s, ok)
        BY <1>1
    <2>2. nodePrinting' = <<"root", m>> \/ (nodePrinting' = <<"right", m>> /\ m \in DOMAIN dblks /\ dblks[m])
        BY <2>1 DEF ValidateBlock
    <2>3. nodeUp
        BY <2>1 DEF ValidateBlock
    <2>4. \/ nodePrinting' = <<"root", m>>
          \/ nodePrinting' = <<"right", m>> /\ m \notin startRight
        BY <2>2, <2>3 DEF StartRightUnwatched
    <2>5. NoRightReprint
        BY <2>4 DEF NoRightReprint
    <2>6. QED
        BY <2>5
<1>2. ASSUME nodePrinting' \in {nodePrinting, NoFile} PROVE [NoRightReprint]_vars
    BY <1>2 DEF NoRightReprint, NoFile
<1>3. CASE Start \/ FinishNodePrint \/ NodeStop \/ FinishToolPrint \/ ToolStop
    BY <1>2, <1>3 DEF Start, FinishNodePrint, NodeStop, FinishToolPrint, ToolStop
<1>4. CASE \E n \in Blocks : ExecToBlock(n) \/ ExtractTrie(n) \/ InvTree(n)
    BY <1>2, <1>4 DEF ExecToBlock, ExtractTrie, PrintCanonicalRight, InvTree
<1>5. CASE UNCHANGED vars
    BY <1>5 DEF vars
<1>6. QED
    BY <1>1, <1>3, <1>4, <1>5 DEF Next

(***************************************************************************)
(* No node run ever starts printing into a right_N.txt that was in the     *)
(* directory when it started, after any number of restarts and any runs of *)
(* execToBlock, extractTrie and invTree: the theorem behind the run        *)
(* diagnostics_files.                                                      *)
(***************************************************************************)
THEOREM NodeNeverOverwritesRightHolds == Spec => NodeNeverOverwritesRight
<1>1. Init => StartRightUnwatched
    BY UnwatchedInit
<1>2. StartRightUnwatched /\ [Next]_vars => StartRightUnwatched'
    BY UnwatchedStep
<1>3. StartRightUnwatched /\ [Next]_vars => [NoRightReprint]_vars
    BY NoRightReprintStep
<1>4. QED
    BY <1>1, <1>2, <1>3, PTL DEF Spec, NodeNeverOverwritesRight, NoRightReprint

=============================================================================
