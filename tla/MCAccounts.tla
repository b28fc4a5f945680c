---------------------------- MODULE MCAccounts ----------------------------
(***************************************************************************)
(* Accounts for TLC: the passwords that are typed and the combinations of  *)
(* options, each option once and the pairs whose order matters.            *)
(***************************************************************************)
EXTENDS Accounts, TLC

CONSTANTS a, b   \* the names besides root; names are only compared

MCNames == {"root", a, b}
Alike == Permutations({a, b})
MCWords == {<<>>, <<"p">>}

Plain == [l |-> None, p |-> None, u |-> 0, L |-> FALSE, U |-> FALSE, G |-> None,
          a |-> FALSE]
MCMods == { [Plain EXCEPT !.u = 2, !.U = TRUE], [Plain EXCEPT !.L = TRUE],
            [Plain EXCEPT !.G = {"wheel"}, !.a = TRUE] }
          \cup UNION { { [Plain EXCEPT !.l = n, !.p = <<"p">>, !.L = TRUE],
                         [Plain EXCEPT !.l = n, !.G = {}] } : n \in {a, b} }
=============================================================================
