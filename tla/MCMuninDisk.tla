----------------------------- MODULE MCMuninDisk -----------------------------
(* Five inodes over two sectors, the third with its type, its size and one    *)
(* pointer in the first, the other two in the second.                         *)
EXTENDS MuninDisk

MCFirst == [n \in Ino |-> IF n <= 2 THEN 1 ELSE 2]
MCInFirst == [n \in Ino |-> IF n = 2 THEN 3 ELSE Direct + 3]
MCPaths == {<<"a">>, <<"bin">>, <<"docs", "readme">>}
=============================================================================
