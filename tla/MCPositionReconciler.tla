------------------------ MODULE MCPositionReconciler ------------------------
EXTENDS PositionReconciler, TLC

OneOrThird == {<<1, 1>>, <<1, 3>>}

BuyOrSell == {1, -1, 4}

HeldOrFlat == {0, 1}

=============================================================================
