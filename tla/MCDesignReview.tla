--------------------------- MODULE MCDesignReview ---------------------------
EXTENDS DesignReview

\* A period that ends at time 0, and one in arrears whose end is not known.
SomeSnapshots ==
    {[tier |-> "premium", status |-> "active", end |-> 0],
     [tier |-> "pro", status |-> "past_due", end |-> Null]}

\* Below, in and above the range that DesignReview allows.
SomeScores == {-1, 100, 101}
=============================================================================
