--------------------------- MODULE MCStudentForm ---------------------------
EXTENDS StudentFormProperties
=============================================================================
