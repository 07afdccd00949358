---------------------------- MODULE MCAuthSession ----------------------------
(* Bounds for checking AuthSession in its shell.                           *)
EXTENDS ApplicationShell

Has(reloads, outside, closes, failures, acts) ==
    [reloads |-> reloads, outside |-> outside, closes |-> closes, failures |-> failures,
     shell |-> acts]

(* Two acts of the outside world, or one of two kinds; and acts in the     *)
(* shell, alone or after a reload.                                         *)
SmallBudgets ==
    {Has(0, 2, 0, 0, 0), Has(0, 1, 1, 0, 0), Has(0, 1, 0, 1, 0), Has(0, 0, 1, 1, 0),
     Has(1, 0, 0, 0, 1), Has(0, 0, 0, 0, 2)}

(* The tour matters only where there are acts in the shell; these, and the *)
(* closes of the socket, begin in a browser that has a session.            *)
SmallInit ==
    /\ ShellInit
    /\ budget.shell + budget.closes > 0 => stored # 0
    /\ done \in CASE budget.shell = 0 -> {Accounts}
                  [] budget.shell = 1 -> {{}}
                  [] OTHER -> {{}, Accounts}

SmallSpec == SmallInit /\ [][ShellNext]_shellVars /\ Fairness
=============================================================================
