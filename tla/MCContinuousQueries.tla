------------------------ MODULE MCContinuousQueries ------------------------
EXTENDS ContinuousQueries

CONSTANTS c1, c2, n1

SameName == [c \in Cqs |-> n1]

=============================================================================
