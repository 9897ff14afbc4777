----------------------------- MODULE MCDnsFuzzer -----------------------------
EXTENDS DnsFuzzer

\* A name of one label and a name of two.
ShortNames == {<< <<97>> >>, << <<97>>, <<98, 99>> >>}
=============================================================================
