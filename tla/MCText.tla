------------------------------- MODULE MCText --------------------------------
\* Text on three small screens: on one a line's width is a multiple of a
\* character's, on one it is not, and one has columns of a single line.
EXTENDS Text

MCFramebuffers ==
  {[width |-> 24, height |-> 10], [width |-> 22, height |-> 10], [width |-> 26, height |-> 5]}

MCCalls ==
  {[format |-> f, args |-> << >>] : f \in {
     <<"a", "a">>, <<"a", "a", "a", "a">>,
     <<"a", " ", "a", "a", "a">>, <<" ", "a", "a", "a", " ", "a", "a">>,
     <<"a", "a", "a", "a", "a", "a", "a", "a", "a", "a">>,
     <<"a", "\n">>, <<"\n", "a", " ", "a", "a", "a">>,
     <<"a", "%", "%", "a">>, <<"~", "a">>}}
  \union {[format |-> <<"a", " ", "%", "u">>, args |-> <<1023>>],
          [format |-> <<"%", "d", " ", "a", "a">>, args |-> <<1023>>],
          [format |-> <<"%", "d">>, args |-> <<128>>],
          [format |-> <<"%", "d">>, args |-> <<127>>],
          [format |-> <<"%", "x", "%", "u">>, args |-> <<175, 0>>],
          [format |-> <<"a", "%", "X">>, args |-> <<512>>],
          [format |-> <<"%", "s", "a">>, args |-> <<<<"a", "a", " ", "a", " ">>>>],
          [format |-> <<"%", "s">>, args |-> <<<< >>>>],
          [format |-> <<"%", "C", "%", "c">>, args |-> <<"red", "a">>]}

MCMessages == {<<"a", "a", " ", "a", "a", "a", "a", "a", "a", " ", "a", "a", "a", "a", "a", "a">>}
=============================================================================
