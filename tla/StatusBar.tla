----------------------------- MODULE StatusBar -----------------------------
(***************************************************************************)
(* The layout of the status bar's row: draw() of src/statusbar.rs.  Texts  *)
(* are their lengths.  A directory longer than its place is cut to its     *)
(* last component (seg, the length after the last slash; -1 without one).  *)
(***************************************************************************)
EXTENDS Integers

CONSTANT MaxCols      \* bounds on what the runs enumerate
ASSUME MaxColsAssumption == MaxCols \in Nat

Minus(a, b) == IF a > b THEN a - b ELSE 0       \* saturating_sub
AtLeast(a, b) == IF a > b THEN a ELSE b

(* write_u16 of a count that is cast to u16.                                 *)
Digits(n) ==
    LET k == n % 65536
    IN IF k < 10 THEN 1 ELSE IF k < 100 THEN 2 ELSE IF k < 1000 THEN 3
       ELSE IF k < 10000 THEN 4 ELSE 5

(* The columns of the badges: two icons, and the numbers of mapped paths.    *)
Badges(ssh, pics, ro, rw) ==
    LET w1 == IF ssh THEN 3 ELSE 0
        w2 == IF pics THEN 3 ELSE 0
        w3 == IF ro > 0 THEN 4 + Digits(ro) ELSE 0
        w4 == IF rw > 0 THEN 4 + Digits(rw) ELSE 0
        sum == w1 + w2 + w3 + w4
    IN IF sum = 0 THEN 0 ELSE sum + 1     \* one separator fewer, two spaces more

Usable(cols) == Minus(cols, 1)
Right(badges, ver, update) == 8 + ver + (IF update THEN 2 ELSE 0) + badges
ShowRight(cols, right) == Usable(cols) >= right + 2
LeftBudget(cols, right) ==
    IF ShowRight(cols, right) THEN Minus(Usable(cols), right + 2) ELSE Minus(Usable(cols), 1)

(* The directory and the command.                                            *)
DirWidth(avail, dir, seg) ==
    IF dir = 0 \/ avail = 0 THEN 0
    ELSE IF dir <= avail THEN dir
    ELSE IF seg >= 0 /\ seg + 2 <= avail THEN seg + 2 ELSE avail
(* A variant that forgets the gap of the separator before the command.       *)
CmdWidthWide(remaining, cmd) ==
    IF remaining < 3 \/ cmd = 0 THEN 0
    ELSE 3 + (IF cmd <= remaining - 2 THEN cmd ELSE remaining - 2)

CmdWidth(remaining, cmd) ==
    IF remaining < 4 \/ cmd = 0 THEN 0
    ELSE 3 + (IF cmd <= remaining - 3 THEN cmd ELSE remaining - 3)

LeftWidth(cols, right, dir, seg, cmd) ==
    LET budget == LeftBudget(cols, right)
        d == DirWidth(budget, dir, seg)
    IN (IF cols > 0 THEN 1 ELSE 0) + d + CmdWidth(Minus(budget, d), cmd)

(* The column at which the right part begins, or the row ends.               *)
Target(cols, right) ==
    IF ShowRight(cols, right) THEN Usable(cols) - right ELSE Usable(cols)

RowWidth(cols, right, dir, seg, cmd) ==
    LET left == AtLeast(LeftWidth(cols, right, dir, seg, cmd), Target(cols, right))
    IN AtLeast(left + (IF ShowRight(cols, right) THEN right ELSE 0), Usable(cols))

(* The bytes of the last component that are shown when it is itself cut.     *)
SliceLength(avail) == avail - 1

(* The bar fills the row up to its last column, which it leaves blank ("to   *)
(* avoid wrap-pending artifacts"), its right part is flush right, and no     *)
(* slice of the directory is longer than what it is taken of.                *)
FitsAt(cols, right, dir, seg, cmd) ==
    /\ RowWidth(cols, right, dir, seg, cmd) = cols - 1
    /\ LeftWidth(cols, right, dir, seg, cmd) <= Target(cols, right)
    /\ LET avail == LeftBudget(cols, right)
       IN avail > 1 /\ dir > avail =>
              /\ seg >= 0 /\ seg + 2 > avail => SliceLength(avail) <= seg
              /\ SliceLength(avail) <= dir

(* Whether every row fits, with and without the sign of a newer release.     *)
LayoutFits ==
    [update \in BOOLEAN |->
        \A cols \in 2..MaxCols, ssh \in BOOLEAN, pics \in BOOLEAN, ro \in {0, 12} :
            \A dir \in 0..MaxCols, cmd \in 0..4 : \A seg \in -1..(dir - 1) :
                FitsAt(cols, Right(Badges(ssh, pics, ro, 0), 2, update), dir, seg, cmd)]
=============================================================================
