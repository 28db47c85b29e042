--------------------------- MODULE ReadFileContents ---------------------------
(***************************************************************************)
(* How a sysfs attribute is read, of whatever length: into a buffer that   *)
(* is doubled whenever it is full, until fread(3) returns 0, which it also *)
(* does when it is asked for nothing.                                      *)
(***************************************************************************)
EXTENDS Naturals, TLAPS

CONSTANTS
    Size,       \* length of the file
    BufSize     \* of the buffer at first: 1024

VARIABLES
    pc,
    Num,        \* Buf.Num()
    TotalRead,
    terminator  \* where the '\0' was put

vars == <<pc, Num, TotalRead, terminator>>

Init == pc = "read" /\ Num = BufSize /\ TotalRead = 0 /\ terminator = 0

\* fread(3) of what is left of the buffer: it comes back with n bytes, and with
\* none only at the end of the file or when there is no room for any.
Fread(n) ==
    /\ pc = "read"
    /\ n <= Num - TotalRead /\ n <= Size - TotalRead
    /\ n = 0 => TotalRead = Size \/ Num = TotalRead
    /\ TotalRead' = TotalRead + n
    /\ IF n = 0 THEN pc' = "terminate" /\ UNCHANGED Num
                ELSE pc' = "read" /\ Num' = IF TotalRead' = Num THEN Num * 2 ELSE Num
    /\ UNCHANGED terminator

\* ferror(3) after a fread(3) that returned 0.
Ferror ==
    /\ pc = "read" /\ pc' = "failed"
    /\ UNCHANGED <<Num, TotalRead, terminator>>

\* The terminator is added to a full buffer, or written into one that is not.
Terminate ==
    /\ pc = "terminate" /\ pc' = "done"
    /\ Num' = IF TotalRead = Num THEN Num + 1 ELSE Num
    /\ terminator' = TotalRead
    /\ UNCHANGED TotalRead

Next == (\E n \in Nat : Fread(n)) \/ Ferror \/ Terminate

Spec == Init /\ [][Next]_vars

-----------------------------------------------------------------------------
Sizes == Size \in Nat /\ BufSize \in Nat \ {0}

\* The buffer is never full when fread(3) is called or its contents terminated, so
\* that a return of 0 does mean the end of the file.
Inv ==
    /\ pc \in {"read", "terminate", "failed", "done"}
    /\ Num \in Nat /\ TotalRead \in Nat /\ terminator \in Nat
    /\ TotalRead < Num /\ TotalRead <= Size
    /\ pc \in {"terminate", "done"} => TotalRead = Size
    /\ pc = "done" => terminator = Size

\* What is returned is the whole file, terminated inside the buffer, for files of
\* every length: those that just fill the buffer, or a doubled one, included.
Complete == pc = "done" => TotalRead = Size /\ terminator = Size /\ Size < Num

\* The reading loop of ReadFileContents returns the complete file (Complete).
THEOREM ContentsComplete == ASSUME Sizes PROVE Spec => []Complete
<1>1. Init => Inv
  BY Sizes DEF Sizes, Init, Inv
<1>2. Inv /\ [Next]_vars => Inv'
  <2> SUFFICES ASSUME Inv, [Next]_vars PROVE Inv'
    OBVIOUS
  <2> USE DEF Inv
  <2>1. ASSUME NEW n \in Nat, Fread(n) PROVE Inv'
    <3>1. CASE n = 0
      BY <2>1, <3>1, Sizes DEF Fread, Sizes
    <3>2. CASE n # 0
      <4>1. TotalRead' \in Nat /\ TotalRead' <= Num /\ TotalRead' <= Size
        BY <2>1, Sizes DEF Fread, Sizes
      <4>2. Num' \in Nat /\ TotalRead' < Num'
        <5>1. CASE TotalRead' = Num
          BY <2>1, <3>2, <4>1, <5>1 DEF Fread
        <5>2. CASE TotalRead' # Num
          BY <2>1, <3>2, <4>1, <5>2 DEF Fread
        <5>3. QED  BY <5>1, <5>2
      <4>3. QED  BY <2>1, <3>2, <4>1, <4>2 DEF Fread
    <3>3. QED  BY <3>1, <3>2
  <2>2. CASE Ferror
    BY <2>2 DEF Ferror
  <2>3. CASE Terminate
    BY <2>3 DEF Terminate
  <2>4. CASE UNCHANGED vars
    BY <2>4 DEF vars
  <2>5. QED
    BY <2>1, <2>2, <2>3, <2>4 DEF Next
<1>3. Inv => Complete
  BY DEF Inv, Complete
<1>4. QED
  BY <1>1, <1>2, <1>3, PTL DEF Spec
=============================================================================
