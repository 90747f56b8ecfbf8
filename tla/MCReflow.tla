------------------------------ MODULE MCReflow ------------------------------
EXTENDS ReflowWords

MCWidths == {2, 4}
MCHeights == {1, 2, 3}

\* The delimiters are the cells first written in the middle column of
\* rows 1 and 2, so both readable words and delimiter runs occur.
MCWordDelimiters == {5, 8}
=============================================================================
