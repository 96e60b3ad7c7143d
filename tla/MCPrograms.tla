----------------------------- MODULE MCPrograms -----------------------------
EXTENDS Programs

CONSTANTS empty, shell, pgx, broken, pgz, elf, text

MCFiles  == {pgx, broken, pgz, elf, text}
MCFormat == [f \in MCFiles |->
  CASE f \in {pgx, broken} -> "pgx" [] f = pgz -> "pgz" [] f = elf -> "elf"
    [] OTHER -> "other"]
MCBad    == {broken}
MCNames  == {shell}
MCValues == {empty, pgx}
=============================================================================
