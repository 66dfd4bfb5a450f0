------------------------------ MODULE MCAppButton ------------------------------
\* Three keys as model values.
EXTENDS AppButton
CONSTANTS plus, minus, enter
=============================================================================
