------------------------------ MODULE MCCarousel ------------------------------
EXTENDS Carousel

MCQueries == {Books, {1}}
=============================================================================
