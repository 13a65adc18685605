---- MODULE MCLwrb ----
EXTENDS Lwrb
====
