------------------------------- MODULE MCVfs -------------------------------
EXTENDS Vfs

MCFiles == {<< >>, <<"b">>, <<"a", "b">>}
MCDirs  == {<<"a">>}
MCFlags == {{}, {"CREAT", "TRUNC"}, {"CREAT", "APPEND"}}
Sym == Permutations(Tasks)
=============================================================================
