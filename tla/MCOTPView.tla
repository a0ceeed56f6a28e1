------------------------------ MODULE MCOTPView ------------------------------
EXTENDS OTPView
=============================================================================
