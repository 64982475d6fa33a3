---------------------------- MODULE MCReadWrite ----------------------------
(* A drive of 26 sectors of 2 bytes.  Primary partition 2 is extended and    *)
(* holds a chain of three logical ones; FS uses the third.  Two files of 4   *)
(* sectors, one behind the other, and one whose descriptor has no O_RDWR.    *)
EXTENDS ReadWrite, TLC

Entry(sys, start, size) == [sys |-> sys, start |-> start, size |-> size]
None == Entry("NO_PART", 0, 0)

MCPartTbl ==
    0 :> <<None, Entry("EXT_PART", 1, 23), Entry("KONIX", 24, 2), None>>
    @@ 1 :> <<Entry("KONIX", 1, 1), Entry("EXT_PART", 2, 2), None, None>>
    @@ 3 :> <<Entry("KONIX", 1, 1), Entry("EXT_PART", 4, 19), None, None>>
    @@ 5 :> <<Entry("KONIX", 1, 18), None, None, None>>
MCStart == "a" :> 3 @@ "b" :> 7 @@ "c" :> 11
MCNrSects == [f \in Files |-> 4]
MCInitSize == "a" :> 3 @@ "b" :> 8 @@ "c" :> 0
MCINode == "a" :> 0 @@ "b" :> 1 @@ "c" :> 1
=============================================================================
