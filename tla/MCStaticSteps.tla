---------------------------- MODULE MCStaticSteps ----------------------------
\* Values for StaticSteps: graphs of one and two decode rows and of four new
\* tokens, so that steps are padded, exact, or too large and eager; or one
\* decode graph of three rows.
EXTENDS StaticSteps

OneAndTwo == {1, 2}
OnlyThree == {3}
OnlyFour == {4}
=============================================================================
