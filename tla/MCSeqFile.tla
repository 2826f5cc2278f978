------------------------------- MODULE MCSeqFile -------------------------------
\* The constants of SeqFile that a configuration file cannot write.
EXTENDS SeqFile

\* Texts of two lengths, as those of the nodes before and after the tenth.
ShortTexts == [n \in 1..Nodes |-> IF n < 3 THEN 2 ELSE 3]

=============================================================================
