-------------------------------- MODULE MCFlows --------------------------------
EXTENDS Flows, Integers

\* The receiver's clock behind by more than the tolerance, right, or ahead by it.
MCSkews == {-2, 0, 1}
================================================================================
