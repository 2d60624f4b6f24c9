---------------------------- MODULE MCSequential ----------------------------
(* Constants of the run of Sequential. *)
EXTENDS Sequential

\* New year's eve, the first of January before and after each twelve o'clock,
\* another day.
Instants == { <<25, 12, 31, 23, 30>>,
              <<26, 1, 1, 0, 15>>, <<26, 1, 1, 9, 50>>, <<26, 1, 1, 12, 5>>,
              <<26, 1, 1, 13, 20>>, <<26, 2, 1, 9, 0>> }
=============================================================================
