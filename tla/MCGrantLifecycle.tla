-------------------------- MODULE MCGrantLifecycle --------------------------
(* GrantLifecycle over two days of two ticks each and small limits.        *)
EXTENDS GrantLifecycle

CONSTANTS JP, US

MCLimits == {None, 0, 1, 2}
MCDeclared == {-1, 0, 1, 2}
MCDates == {None, 0, 1}
MCLocations == {None, Anywhere, JP, US}
MCPlaces == {JP, US}

=============================================================================
