-------------------------------- MODULE MCFs --------------------------------
(* Instance of Fs for TLC: names of files are interchangeable.              *)
EXTENDS Fs, TLC

\* The entry of the first file is replaced by a second one of the second file.
\* do_unlink() of that file clears this one and leaves the other, which then
\* points to no file, or to the next that is created.
Written == {<<2, [ino |-> 4, name |-> "dev_tty"]>>}

NameSymmetry == Permutations(Name)
=============================================================================
