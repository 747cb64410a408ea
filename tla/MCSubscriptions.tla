-------------------------- MODULE MCSubscriptions --------------------------
EXTENDS Subscriptions
CONSTANTS a, b, w1, w2
============================================================================
