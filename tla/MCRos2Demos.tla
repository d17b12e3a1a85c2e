---------------------------- MODULE MCRos2Demos ----------------------------
EXTENDS Ros2Demos

SomeWanted == [c \in 1..2 |-> IF c = 1 THEN 3 ELSE 5]
SomeRequested ==
    {<<<<"scale", 10>>>>, <<<<"scale", 0>>>>, <<<<"scale", 11>>>>, <<<<"scale", -1>>>>,
     <<<<"step", 10>>>>, <<<<"step", 11>>>>, <<<<"scale", 5>>, <<"step", 7>>>>,
     <<<<"step", 1>>, <<"scale", 2>>, <<"scale", 3>>>>}
SomePortConfig == [t \in 1..2 |-> [min |-> 13, max |-> 15]]
=============================================================================
