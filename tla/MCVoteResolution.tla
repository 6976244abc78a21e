-------------------------- MODULE MCVoteResolution --------------------------
EXTENDS VoteResolution

MCShapes ==
    [single : BOOLEAN, options : {1 .. 2, 1 .. 3}, has_deny : BOOLEAN]
        \cup [single : {TRUE}, options : {1 .. 1}, has_deny : BOOLEAN]
=============================================================================
