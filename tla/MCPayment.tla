------------------------------ MODULE MCPayment ------------------------------
\* Payment with the surroundings of a payment the runs distinguish.
EXTENDS Payment

MCAloneOrAll == {{}, {"paymentChecks"}, Activities}
MCChecks == {{"paymentChecks"}}
=============================================================================
